---- MODULE Spec2Model ----
(***************************************************************************)
(* FareCompare backend: the multi-source fare aggregator (FareService and  *)
(* its three platform adapters) and the GTFS bus itinerary planner         *)
(* (BusService).                                                           *)
(*                                                                         *)
(* Units.  Coordinates are integers in 1e-5 degree.  Distances are integer *)
(* metres.  Wall-clock time is integer milliseconds; GTFS times are        *)
(* <<h, m, s>> triples as written in stop_times.csv.                       *)
(***************************************************************************)
EXTENDS Integers, Sequences, FiniteSets, TLC

VARIABLES
    now,        \* Date.now(), ms
    cache,      \* FareService.cache : cacheKey -> CacheEntry
    calls,      \* the getFareEstimates invocations, by call id
    feed,       \* the csv files under bus_routing/
    bus,        \* the BusService instance (tables, indices, isLoaded)
    clock,      \* new Date(): weekday and seconds since local midnight
    query,      \* the last findRoutes request
    routesOut,  \* what the last findRoutes call returned
    http,       \* the POST request in hand: its body, what was passed on, the answer
    calc,       \* one ride put to the fallback estimator: inputs and results
    load,       \* csv rows as read, cells still text, and the tables made of them
    chrome      \* the BrowserService singleton, the browsers launched and the callers under way

vars == <<now, cache, calls, feed, bus, clock, query, routesOut, http, calc, load, chrome>>
fareVars == <<now, cache, calls>>
apiVars == <<http>>
calcVars == <<calc>>
loadVars == <<load>>
browserVars == <<chrome>>
busVars == <<feed, bus, clock, query, routesOut>>

(***************************************************************************)
(* Generic helpers                                                         *)
(***************************************************************************)
Abs(x) == IF x < 0 THEN -x ELSE x
Max(a, b) == IF a >= b THEN a ELSE b
Min(a, b) == IF a <= b THEN a ELSE b
Range(s) == {s[i] : i \in DOMAIN s}

RECURSIVE Flat(_)
\* Array.prototype.flat() on a sequence of sequences
Flat(ss) == IF ss = <<>> THEN <<>> ELSE Head(ss) \o Flat(Tail(ss))

RECURSIVE SqrtSearch(_, _, _)
SqrtSearch(x, lo, hi) ==
    IF lo >= hi THEN lo
    ELSE LET mid == (lo + hi + 1) \div 2
         IN  IF mid * mid <= x THEN SqrtSearch(x, mid, hi)
                               ELSE SqrtSearch(x, lo, mid - 1)

\* floor of the square root, for 0 <= x < 2^31
ISqrt(x) == SqrtSearch(x, 0, 46340)

(***************************************************************************)
(* utils/fare-calculator.ts                                                *)
(***************************************************************************)
\* cos(latitude) in permille, by the Taylor polynomial 1 - x^2/2 + x^4/24
\* with x in milliradians
CosPermille(latE5) ==
    LET x == ((Abs(latE5) \div 1000) * 17453) \div 100000
        x2 == x * x
    IN  1000 - (x2 \div 2000) + ((x2 \div 1000) * (x2 \div 1000)) \div 24000

\* metres spanned by d units of 1e-5 degree along a meridian (R = 6371 km)
ArcMetres(d) ==
    IF Abs(d) <= 19000 THEN (Abs(d) * 111195) \div 100000
                       ELSE (Abs(d) \div 1000) * 1112

\* Haversine great-circle distance, in metres.  Evaluated with the
\* equirectangular form (the two agree to well under a metre at the spans
\* the planner cares about); spans too long for the arithmetic are measured
\* at a coarser grain.
calculateDistance(lat1, lon1, lat2, lon2) ==
    LET dy == ArcMetres(lat2 - lat1)
        dx == ((ArcMetres(lon2 - lon1) \div 10) * CosPermille((lat1 + lat2) \div 2)) \div 100
        g  == IF dy <= 30000 /\ dx <= 30000 THEN 1 ELSE 1000
    IN  g * ISqrt((dy \div g) * (dy \div g) + (dx \div g) * (dx \div g))

VehicleClasses == {"bike", "auto", "mini", "sedan", "suv"}

rates ==
    [t \in VehicleClasses |->
        CASE t = "bike"  -> [base |-> 20, perKm |-> 8,  min |-> 20]
          [] t = "auto"  -> [base |-> 30, perKm |-> 15, min |-> 30]
          [] t = "mini"  -> [base |-> 50, perKm |-> 18, min |-> 50]
          [] t = "sedan" -> [base |-> 60, perKm |-> 22, min |-> 60]
          [] t = "suv"   -> [base |-> 80, perKm |-> 30, min |-> 80]]

\* The fare from the per-kilometre charge alone, without base or minimum
calculateFarePerKmOnly(distanceM, type, surge) ==
    ((distanceM * rates[type].perKm) * surge + 500000) \div 1000000

\* calculateFare with Math.random() made explicit: surge is the multiplier
\* 1.0 + random * 0.2 in permille, so 1000 <= surge < 1200.
\* Math.round(Math.max(fare * surge, rate.min)), in micro-rupees.
calculateFare(distanceM, type, surge) ==
    LET rate == rates[type]
        fareMilli == rate.base * 1000 + distanceM * rate.perKm
        surged == fareMilli * surge
        floored == Max(surged, rate.min * 1000000)
    IN  (floored + 500000) \div 1000000

(***************************************************************************)
(* interfaces/types.ts, adapters/*.adapter.ts                              *)
(***************************************************************************)
\* The timestamp field (Date.now() at creation) is not carried: nothing in
\* the aggregator reads it.
FareEstimate(platform, vehicleType, price, confidence, source) ==
    [platform |-> platform, vehicleType |-> vehicleType, price |-> price,
     currency |-> "INR", confidence |-> confidence, source |-> source]

\* The awaited steps of one scraping run that can throw
Steps == {"newPage", "cookies", "nav", "scrape", "pageClose", "contextClose"}

\* How many steps of one run fail
MaxFaults == 1

\* What the loaded page shows: fare rows, no usable fare row, or the login
\* page
Pages == {"rows", "norows", "login"}

\* The rows captured from a page (name, amount)
RowsOf(page) ==
    IF page = "rows" THEN <<[name |-> "Mini", amount |-> 120]>>
    ELSE IF page = "norows" THEN <<[name |-> "Mini", amount |-> 0]>>
    ELSE <<>>

\* One run's environment: the steps that throw and the page met
Scenarios ==
    {sc \in [fails : SUBSET Steps, page : Pages] : Cardinality(sc.fails) <= MaxFaults}

\* The values Math.random() yields over the calculateFare calls of one
\* getMockData, as surge multipliers in permille
SurgeDraws == { <<1199, 1000, 1100>> }

Resolved(quotes) == [status |-> "resolved", quotes |-> quotes]
Rejected == [status |-> "rejected", quotes |-> <<>>]

RECURSIVE normalizeRows(_, _)
\* OlaAdapter.normalizeResponse / the row loop of UberAdapter: one live
\* quote per captured row whose price is > 0
normalizeRows(platform, rows) ==
    IF rows = <<>> THEN <<>>
    ELSE LET cat == Head(rows)
             rest == normalizeRows(platform, Tail(rows))
         IN  IF cat.amount > 0
             THEN <<FareEstimate(platform, cat.name, cat.amount, "high", "live")>> \o rest
             ELSE rest

OlaMockData(pickup, drop, surge) ==
    LET distance == calculateDistance(pickup.lat, pickup.lng, drop.lat, drop.lng)
    IN  << FareEstimate("ola", "mini", calculateFare(distance, "mini", surge[1]), "medium", "estimate"),
           FareEstimate("ola", "prime_sedan", calculateFare(distance, "sedan", surge[2]), "medium", "estimate"),
           FareEstimate("ola", "auto", calculateFare(distance, "auto", surge[3]), "medium", "estimate") >>

RapidoMockData(pickup, drop, surge) ==
    LET distance == calculateDistance(pickup.lat, pickup.lng, drop.lat, drop.lng)
    IN  << FareEstimate("rapido", "bike", calculateFare(distance, "bike", surge[1]), "medium", "estimate"),
           FareEstimate("rapido", "auto", calculateFare(distance, "auto", surge[2]), "medium", "estimate") >>

UberMockData(pickup, drop, surge) ==
    LET distance == calculateDistance(pickup.lat, pickup.lng, drop.lat, drop.lng)
    IN  << FareEstimate("uber", "UberGo", calculateFare(distance, "mini", surge[1]), "medium", "estimate"),
           FareEstimate("uber", "UberPremier", calculateFare(distance, "sedan", surge[2]), "medium", "estimate"),
           FareEstimate("uber", "UberAuto", calculateFare(distance, "auto", surge[3]), "medium", "estimate") >>

\* getMockData of the adapter registered under platformName
getMockData(platformName, pickup, drop, surge) ==
    CASE platformName = "ola"    -> OlaMockData(pickup, drop, surge)
      [] platformName = "rapido" -> RapidoMockData(pickup, drop, surge)
      [] platformName = "uber"   -> UberMockData(pickup, drop, surge)

\* The finally block shared by the three adapters:
\*   if (page) await page.close(); if (context) await context.close();
\* An exception thrown here replaces the value the try/catch returned.
FinallyClose(sc, value) ==
    IF "newPage" \in sc.fails THEN value          \* page and context still null
    ELSE IF "pageClose" \in sc.fails THEN Rejected
    ELSE IF "contextClose" \in sc.fails THEN Rejected
    ELSE value

\* OlaAdapter.getFareEstimate
OlaGetFareEstimate(pickup, drop, sc, surge) ==
    LET mock == OlaMockData(pickup, drop, surge)
        body ==
            IF "newPage" \in sc.fails THEN mock              \* outer catch
            ELSE IF "nav" \in sc.fails THEN mock             \* outer catch
            ELSE IF sc.page = "login" THEN mock              \* early return
            ELSE IF "scrape" \in sc.fails THEN mock          \* outer catch
            ELSE LET results == normalizeRows("ola", RowsOf(sc.page))
                 IN  IF Len(results) = 0 THEN mock ELSE results
    IN  FinallyClose(sc, Resolved(body))

\* RapidoAdapter.getFareEstimate: every path of the try block returns the
\* mock data
RapidoGetFareEstimate(pickup, drop, sc, surge) ==
    LET mock == RapidoMockData(pickup, drop, surge)
    IN  FinallyClose(sc, Resolved(mock))

\* UberAdapter.getFareEstimate
UberGetFareEstimate(pickup, drop, sc, surge) ==
    LET mock == UberMockData(pickup, drop, surge)
        body ==
            IF "newPage" \in sc.fails THEN mock              \* outer catch
            ELSE IF "nav" \in sc.fails THEN mock             \* inner catch
            ELSE IF sc.page = "login" THEN mock              \* early return
            ELSE IF "scrape" \in sc.fails THEN mock          \* inner / outer catch
            ELSE LET estimates == normalizeRows("uber", RowsOf(sc.page))
                 IN  IF Len(estimates) = 0 THEN mock ELSE estimates
    IN  FinallyClose(sc, Resolved(body))

(***************************************************************************)
(* services/fare.service.ts                                                *)
(***************************************************************************)
CACHE_TTL == 30000

\* FareService.adapters, in the order the constructor pushes them
adapters == <<"ola", "rapido", "uber">>
AdapterIds == DOMAIN adapters

getFareEstimate(platformName, pickup, drop, sc, surge) ==
    CASE platformName = "ola"    -> OlaGetFareEstimate(pickup, drop, sc, surge)
      [] platformName = "rapido" -> RapidoGetFareEstimate(pickup, drop, sc, surge)
      [] platformName = "uber"   -> UberGetFareEstimate(pickup, drop, sc, surge)

\* Number.prototype.toFixed(4) of a coordinate held in 1e-5 degree: the
\* nearest multiple of 1e-4 degree
toFixed4(x) ==
    IF x >= 0 THEN (x + 5) \div 10 ELSE -((-x + 5) \div 10)

getCacheKey(pickup, drop) ==
    <<toFixed4(pickup.lat), toFixed4(pickup.lng), toFixed4(drop.lat), toFixed4(drop.lng)>>

\* The producer promise left without its .catch handler
CatchRethrows(outcome) == outcome

\* adapter.getFareEstimate(pickup, drop).catch(err => [])
CatchToEmpty(outcome) ==
    IF outcome.status = "rejected" THEN Resolved(<<>>) ELSE outcome

\* cached.data.map(item => ({ ...item, source: 'cached' }))
MarkCached(data) ==
    [i \in DOMAIN data |-> [data[i] EXCEPT !.source = "cached"]]

\* An entry aged exactly CACHE_TTL still served
IsFreshInclusive(cached, t) == cached.present /\ t - cached.timestamp <= CACHE_TTL

\* cached && (Date.now() - cached.timestamp < this.CACHE_TTL)
IsFresh(cached, t) == cached.present /\ t - cached.timestamp < CACHE_TTL

\* The results flattened from the last producer to the first
PromiseAllLastFirst(promises) ==
    IF \E i \in DOMAIN promises : promises[i].status = "rejected"
    THEN Rejected
    ELSE Resolved(Flat([i \in DOMAIN promises |-> promises[Len(promises) + 1 - i].quotes]))

\* Promise.all over the settled producer promises: rejects if one rejects
PromiseAll(promises) ==
    IF \E i \in DOMAIN promises : promises[i].status = "rejected"
    THEN Rejected
    ELSE Resolved(Flat([i \in DOMAIN promises |-> promises[i].quotes]))

\* ---- bounds of the aggregator model ----
MaxCalls == 2
MaxTicks == 2
TickMs == CACHE_TTL \div 2
CallIds == 1..MaxCalls

\* Coordinates sent by clients (test-api.js uses 12.9716,77.5946 ->
\* 12.9352,77.6245); the first two pickups share a cache key
Pickups ==
    { [lat |-> 1297160, lng |-> 7759460],
      [lat |-> 1297162, lng |-> 7759460],
      [lat |-> 1297240, lng |-> 7759460] }
Drops == { [lat |-> 1293520, lng |-> 7762450] }
Requests == [pickup : Pickups, drop : Drops]
CacheKeys == {getCacheKey(r.pickup, r.drop) : r \in Requests}

Pending == [status |-> "pending", quotes |-> <<>>]
NoEntry == [present |-> FALSE, data |-> <<>>, timestamp |-> 0]
IdleCall ==
    [pc |-> "idle", pickup |-> [lat |-> 0, lng |-> 0], drop |-> [lat |-> 0, lng |-> 0],
     startedAt |-> 0,
     produced |-> [a \in AdapterIds |-> Pending],
     promises |-> [a \in AdapterIds |-> Pending],
     hit |-> FALSE, returned |-> <<>>]

EmptyCache == [k \in CacheKeys |-> NoEntry]
NoCalls == [c \in CallIds |-> IdleCall]

\* new FareService(); the planner takes no part in the aggregator's behaviours
InitFare ==
    /\ now = 0
    /\ cache = EmptyCache
    /\ calls = NoCalls
    /\ feed = "unread" /\ bus = "unbuilt" /\ clock = "unread"
    /\ query = "none" /\ routesOut = <<>>
    /\ http = "none" /\ calc = "none" /\ load = "none" /\ chrome = "none"

\* getFareEstimates up to its first await: the cache lookup, and on a miss
\* the start of the three producers
StartCall(c, req) ==
    /\ calls[c].pc = "idle"
    /\ IF c = 1 THEN TRUE ELSE calls[c - 1].pc # "idle"   \* ids follow start order
    /\ LET cacheKey == getCacheKey(req.pickup, req.drop)
           cached == cache[cacheKey]
           base == [calls[c] EXCEPT !.pickup = req.pickup, !.drop = req.drop,
                                    !.startedAt = now]
       IN  IF IsFresh(cached, now)
           THEN calls' = [calls EXCEPT ![c] =
                    [base EXCEPT !.pc = "done", !.hit = TRUE,
                                 !.returned = MarkCached(cached.data)]]
           ELSE calls' = [calls EXCEPT ![c] = [base EXCEPT !.pc = "awaiting"]]
    /\ UNCHANGED <<now, cache>>

\* The cache written without looking at the length of the results
UpdateCacheUnguarded(entries, cacheKey, flattenedResults, t) ==
    [entries EXCEPT ![cacheKey] =
        [present |-> TRUE, data |-> flattenedResults, timestamp |-> t]]

\* if (flattenedResults.length > 0) this.cache.set(cacheKey, {data, timestamp})
UpdateCache(entries, cacheKey, flattenedResults, t) ==
    IF Len(flattenedResults) > 0
    THEN [entries EXCEPT ![cacheKey] =
            [present |-> TRUE, data |-> flattenedResults, timestamp |-> t]]
    ELSE entries

\* The continuation of getFareEstimates after await Promise.all(promises)
AfterAwait(c, call) ==
    LET all == PromiseAll(call.promises)
        flattenedResults == all.quotes
        cacheKey == getCacheKey(call.pickup, call.drop)
    IN  IF all.status = "rejected"
        THEN /\ calls' = [calls EXCEPT ![c] = [call EXCEPT !.pc = "rejected"]]
             /\ UNCHANGED cache
        ELSE /\ calls' = [calls EXCEPT ![c] =
                    [call EXCEPT !.pc = "done",
                                 !.returned = flattenedResults]]
             /\ cache' = UpdateCache(cache, cacheKey, flattenedResults, now)

\* A combinator that settles with the first producer to settle
AnySettled(promises) == \E b \in DOMAIN promises : promises[b].status # "pending"

\* await Promise.all(promises) resumes once no promise is pending
AllSettled(promises) == \A b \in DOMAIN promises : promises[b].status # "pending"

\* Everything a producer can settle with: <<adapter, request, outcome>> over
\* every scenario of the run and every draw of the random surge
ProducerOutcomes ==
    UNION { UNION { { <<a, req, getFareEstimate(adapters[a], req.pickup, req.drop, sc, surge)>> :
                        sc \in Scenarios, surge \in SurgeDraws } :
                    req \in Requests } :
            a \in AdapterIds }

\* Producer a of call c settles; when it is the last one, Promise.all
\* settles and the call runs to its return in the same turn
ProducerSettles(c, a) ==
    /\ calls[c].pc = "awaiting"
    /\ calls[c].promises[a].status = "pending"
    /\ \E po \in ProducerOutcomes :
         /\ po[1] = a
         /\ po[2] = [pickup |-> calls[c].pickup, drop |-> calls[c].drop]
         /\ LET outcome == po[3]
                call == [calls[c] EXCEPT !.produced[a] = outcome,
                                         !.promises[a] = CatchToEmpty(outcome)]
            IN  IF AllSettled(call.promises)
             THEN AfterAwait(c, call)
             ELSE calls' = [calls EXCEPT ![c] = call] /\ UNCHANGED cache
    /\ UNCHANGED now

Tick ==
    /\ now < MaxTicks * TickMs
    /\ now' = now + TickMs
    /\ UNCHANGED <<cache, calls>>

(***************************************************************************)
(* services/bus.service.ts: tables and indices                             *)
(*                                                                         *)
(* A JavaScript Map (and Set) iterates in insertion order, and the planner *)
(* depends on that order: a Map is a sequence of [key, val] entries.       *)
(***************************************************************************)
EmptyMap == <<>>
MapHas(m, k) == \E i \in DOMAIN m : m[i].key = k
MapGet(m, k) == m[CHOOSE i \in DOMAIN m : m[i].key = k].val
MapSet(m, k, v) ==
    IF MapHas(m, k)
    THEN [i \in DOMAIN m |-> IF m[i].key = k THEN [key |-> k, val |-> v] ELSE m[i]]
    ELSE Append(m, [key |-> k, val |-> v])
MapKeys(m) == [i \in DOMAIN m |-> m[i].key]

\* map.get(k)?.push(v) after the has/set([]) guard
MapPush(m, k, v) ==
    IF MapHas(m, k) THEN MapSet(m, k, Append(MapGet(m, k), v))
                    ELSE MapSet(m, k, <<v>>)

\* Set.prototype.add on an insertion-ordered set held as a sequence
SetAdd(q, x) == IF \E i \in DOMAIN q : q[i] = x THEN q ELSE Append(q, x)

\* Array.prototype.indexOf, 0-based, -1 when absent
IndexOf(q, x) ==
    IF \E i \in DOMAIN q : q[i] = x
    THEN (CHOOSE i \in DOMAIN q : q[i] = x /\ \A j \in 1..(i - 1) : q[j] # x) - 1
    ELSE -1

\* Array.prototype.slice(0, n)
Slice0(q, n) == SubSeq(q, 1, Min(n, Len(q)))

RECURSIVE InsertBy(_, _)
\* x put after every element whose key is <= its own
InsertBy(sorted, x) ==
    IF sorted = <<>> THEN <<x>>
    ELSE IF Head(sorted).key <= x.key
         THEN <<Head(sorted)>> \o InsertBy(Tail(sorted), x)
         ELSE <<x>> \o sorted

RECURSIVE SortFrom(_, _)
SortFrom(q, acc) ==
    IF q = <<>> THEN acc ELSE SortFrom(Tail(q), InsertBy(acc, Head(q)))

\* Array.prototype.sort((a, b) => key(a) - key(b)): ascending and stable;
\* keys[i] is the comparator's key of q[i]
SortBy(keys, q) ==
    LET sorted == SortFrom([i \in DOMAIN q |-> [key |-> keys[i], val |-> q[i]]], <<>>)
    IN  [i \in DOMAIN sorted |-> sorted[i].val]

\* parseTimeSeconds / toSeconds: "HH:MM:SS" split on ':' -> h*3600 + m*60 + s
parseTimeSeconds(timeStr) == timeStr[1] * 3600 + timeStr[2] * 60 + timeStr[3]

\* calculateDurationInMinutes: Math.floor((toSeconds(end) - toSeconds(start)) / 60)
calculateDurationInMinutes(start, end) ==
    (parseTimeSeconds(end) - parseTimeSeconds(start)) \div 60

\* calculateBusFare, distance in metres
calculateBusFare(distanceM) ==
    IF distanceM <= 4000 THEN 5
    ELSE IF distanceM <= 10000 THEN 10
    ELSE IF distanceM <= 15000 THEN 15
    ELSE IF distanceM <= 20000 THEN 20
    ELSE 25

\* The files loadData cannot do without (existsSync guard), and routes.csv,
\* whose absence makes loadCsv throw
GuardedFiles == {"stops", "stop_times", "trips"}

Unloaded ==
    [isLoaded |-> FALSE, stops |-> EmptyMap, trips |-> EmptyMap, routes |-> EmptyMap,
     calendar |-> EmptyMap, stopTimesByStopId |-> EmptyMap,
     stopTimesByTripId |-> EmptyMap, routesByStop |-> EmptyMap,
     stopsByRoute |-> EmptyMap]

RECURSIVE SetAll(_, _, _)
\* rows.forEach(r => map.set(r[idField], r))
SetAll(idField, rows, m) ==
    IF rows = <<>> THEN m
    ELSE SetAll(idField, Tail(rows), MapSet(m, Head(rows)[idField], Head(rows)))

RECURSIVE SampleTrips(_, _)
\* routeSampleTrip: the first trip of each route, in trips.csv order
SampleTrips(tripRows, m) ==
    IF tripRows = <<>> THEN m
    ELSE LET t == Head(tripRows)
         IN  SampleTrips(Tail(tripRows),
                         IF MapHas(m, t.route_id) THEN m ELSE MapSet(m, t.route_id, t.trip_id))

RECURSIVE IndexStopTimes(_, _, _)
\* stopTimesData.forEach: the three indices fed by each stop_times row
IndexStopTimes(rows, trips, idx) ==
    IF rows = <<>> THEN idx
    ELSE LET st == Head(rows)
             withRoute ==
                 IF MapHas(trips, st.trip_id)
                 THEN MapSet(idx.routesByStop, st.stop_id,
                             SetAdd(IF MapHas(idx.routesByStop, st.stop_id)
                                    THEN MapGet(idx.routesByStop, st.stop_id) ELSE <<>>,
                                    MapGet(trips, st.trip_id).route_id))
                 ELSE idx.routesByStop
         IN  IndexStopTimes(Tail(rows), trips,
                 [stopTimesByStopId |-> MapPush(idx.stopTimesByStopId, st.stop_id, st),
                  stopTimesByTripId |-> MapPush(idx.stopTimesByTripId, st.trip_id, st),
                  routesByStop |-> withRoute])

StopSequencesOf(sts) == [i \in DOMAIN sts |-> sts[i].stop_sequence]

RECURSIVE BuildStopsByRoute(_, _)
\* routeSampleTrip.forEach: sorts the sample trip's stop-time array IN PLACE
\* and records its stop ids; acc = [byTrip, stopsByRoute]
BuildStopsByRoute(samples, acc) ==
    IF samples = <<>> THEN acc
    ELSE LET routeId == Head(samples).key
             tripId == Head(samples).val
         IN  IF MapHas(acc.byTrip, tripId)
             THEN LET tripStops == MapGet(acc.byTrip, tripId)
                      sorted == SortBy(StopSequencesOf(tripStops), tripStops)
                  IN  BuildStopsByRoute(Tail(samples),
                         [byTrip |-> MapSet(acc.byTrip, tripId, sorted),
                          stopsByRoute |-> MapSet(acc.stopsByRoute, routeId,
                                                  [i \in DOMAIN sorted |-> sorted[i].stop_id])])
             ELSE BuildStopsByRoute(Tail(samples), acc)

\* A reader that takes an absent file for an empty one
loadCsvMissingAsEmpty(f, name) ==
    [threw |-> FALSE, rows |-> IF name \in f.files THEN f[name] ELSE <<>>]

\* const loadCsv = (filePath) => parse(fs.readFileSync(filePath, 'utf-8'), ...):
\* readFileSync throws when the file is absent
loadCsv(f, name) ==
    IF name \in f.files THEN [threw |-> FALSE, rows |-> f[name]]
    ELSE [threw |-> TRUE, rows |-> <<>>]

\* BusService.loadData.  calendar.csv is never read: calendarPath is computed
\* and this.calendar stays empty.
loadData(f) ==
    IF ~(GuardedFiles \subseteq f.files) THEN Unloaded
    ELSE LET stops == SetAll("stop_id", loadCsv(f, "stops").rows, EmptyMap)
             trips == SetAll("trip_id", loadCsv(f, "trips").rows, EmptyMap)
         IN  IF loadCsv(f, "routes").threw
             THEN [Unloaded EXCEPT !.stops = stops, !.trips = trips]   \* caught, isLoaded stays false
             ELSE LET routes == SetAll("route_id", loadCsv(f, "routes").rows, EmptyMap)
                      idx == IndexStopTimes(loadCsv(f, "stop_times").rows, trips,
                                 [stopTimesByStopId |-> EmptyMap, stopTimesByTripId |-> EmptyMap,
                                  routesByStop |-> EmptyMap])
                      built == BuildStopsByRoute(SampleTrips(f.trips, EmptyMap),
                                 [byTrip |-> idx.stopTimesByTripId, stopsByRoute |-> EmptyMap])
                  IN  [isLoaded |-> TRUE, stops |-> stops, trips |-> trips, routes |-> routes,
                       calendar |-> EmptyMap,
                       stopTimesByStopId |-> idx.stopTimesByStopId,
                       stopTimesByTripId |-> built.byTrip,
                       routesByStop |-> idx.routesByStop,
                       stopsByRoute |-> built.stopsByRoute]

(***************************************************************************)
(* server.ts: what POST /api/bus-routes answers for a planner result       *)
(***************************************************************************)
\* res.json({success: true, count: routes.length, routes}); an exception
\* reaches the catch, which answers 500
busRoutesReply(result) ==
    IF result.status = "threw"
    THEN [status |-> 500, success |-> FALSE, count |-> 0, routes |-> <<>>]
    ELSE [status |-> 200, success |-> TRUE, count |-> Len(result.routes),
          routes |-> result.routes]

(***************************************************************************)
(* services/bus.service.ts: trip selection and itinerary assembly          *)
(***************************************************************************)
days == <<"sunday", "monday", "tuesday", "wednesday", "thursday", "friday", "saturday">>

\* isServiceActive: new Date() is the clock; only the weekday flag of the
\* calendar entry is consulted (dateStr is built but never compared)
isServiceActive(b, clk, serviceId) ==
    IF ~MapHas(b.calendar, serviceId) THEN TRUE
    ELSE LET cal == MapGet(b.calendar, serviceId)
             dayName == days[clk.day + 1]
         IN  cal.flags[dayName] = "1"

\* the optional afterTimeSec parameter of findTripForLeg
NoAfterTime == [given |-> FALSE, sec |-> 0]
AfterTime(sec) == [given |-> TRUE, sec |-> sec]

NoTrip == [found |-> FALSE]

\* The end-stop test without the sequence comparison
CallsAnywhere(s, st, endStopId) == s.stop_id = endStopId

\* s => s.stop_id === endStopId && s.stop_sequence > st.stop_sequence
CallsLater(s, st, endStopId) ==
    s.stop_id = endStopId /\ s.stop_sequence > st.stop_sequence

RECURSIVE FirstTripWithEnd(_, _, _)
\* for (const st of candidates): the first whose trip calls endStopId at a
\* higher stop_sequence (Array.prototype.find takes the first such entry)
FirstTripWithEnd(b, candidates, endStopId) ==
    IF candidates = <<>> THEN NoTrip
    ELSE LET st == Head(candidates)
             tripStops == IF MapHas(b.stopTimesByTripId, st.trip_id)
                          THEN MapGet(b.stopTimesByTripId, st.trip_id) ELSE <<>>
             hits == {k \in DOMAIN tripStops : CallsLater(tripStops[k], st, endStopId)}
         IN  IF hits # {}
             THEN [found |-> TRUE, trip |-> MapGet(b.trips, st.trip_id), start |-> st,
                   end |-> tripStops[CHOOSE k \in hits : \A j \in hits : k <= j],
                   stops |-> tripStops]
             ELSE FirstTripWithEnd(b, Tail(candidates), endStopId)

DepartureSecsOf(sts) == [i \in DOMAIN sts |-> parseTimeSeconds(sts[i].departure_time)]

findTripForLeg(b, clk, routeId, startStopId, endStopId, afterTime) ==
    IF ~MapHas(b.stopTimesByStopId, startStopId) THEN NoTrip
    ELSE LET startStopTimes == MapGet(b.stopTimesByStopId, startStopId)
             OnRouteAndActive(st) ==
                 /\ MapHas(b.trips, st.trip_id)
                 /\ MapGet(b.trips, st.trip_id).route_id = routeId
                 /\ isServiceActive(b, clk, MapGet(b.trips, st.trip_id).service_id)
             NotBefore(st) == parseTimeSeconds(st.departure_time) >= afterTime.sec
             onRoute == SelectSeq(startStopTimes, OnRouteAndActive)
             sorted == SortBy(DepartureSecsOf(onRoute), onRoute)
             candidates == IF afterTime.given THEN SelectSeq(sorted, NotBefore) ELSE sorted
         IN  FirstTripWithEnd(b, candidates, endStopId)

RECURSIVE StopInfos(_, _)
\* .map(st => stops.get(st.stop_id) ? {...} : null).filter(s => s !== null)
StopInfos(b, sts) ==
    IF sts = <<>> THEN <<>>
    ELSE LET st == Head(sts)
         IN  IF MapHas(b.stops, st.stop_id)
             THEN LET stop == MapGet(b.stops, st.stop_id)
                  IN  <<[lat |-> stop.stop_lat, lng |-> stop.stop_lon, name |-> stop.stop_name,
                         sequence |-> st.stop_sequence, time |-> st.arrival_time]>>
                      \o StopInfos(b, Tail(sts))
             ELSE StopInfos(b, Tail(sts))

\* The stop list of a leg taken from the stop after the boarding stop
extractRouteStopsPastBoard(b, tripStopTimes, startSeq, endSeq) ==
    LET Between(st) == st.stop_sequence > startSeq /\ st.stop_sequence <= endSeq
        between == SelectSeq(tripStopTimes, Between)
    IN  StopInfos(b, SortBy(StopSequencesOf(between), between))

extractRouteStops(b, tripStopTimes, startSeq, endSeq) ==
    LET Between(st) == st.stop_sequence >= startSeq /\ st.stop_sequence <= endSeq
        between == SelectSeq(tripStopTimes, Between)
    IN  StopInfos(b, SortBy(StopSequencesOf(between), between))

RECURSIVE calculateRouteDistance(_)
calculateRouteDistance(stops) ==
    IF Len(stops) < 2 THEN 0
    ELSE calculateDistance(stops[1].lat, stops[1].lng, stops[2].lat, stops[2].lng)
         + calculateRouteDistance(Tail(stops))

maxDistanceM == 2000
nearbyLimit == 20
DistancesOf(items) == [i \in DOMAIN items |-> items[i].distance]

findNearbyStopsWithDistance(b, location) ==
    LET items == [k \in DOMAIN b.stops |->
                    [stop |-> b.stops[k].val,
                     distance |-> calculateDistance(location.lat, location.lng,
                                      b.stops[k].val.stop_lat, b.stops[k].val.stop_lon)]]
        InRange(item) == item.distance <= maxDistanceM
        inRange == SelectSeq(items, InRange)
    IN  Slice0(SortBy(DistancesOf(inRange), inRange), nearbyLimit)

\* Math.ceil((distKm * 1000) / 80)
WalkMinutes(distanceM) == (distanceM + 79) \div 80

Place(lat, lng, name) == [lat |-> lat, lng |-> lng, name |-> name]
StopPlace(stop) == Place(stop.stop_lat, stop.stop_lon, stop.stop_name)

Segment(type, start, end, distance, duration, instruction, stops) ==
    [type |-> type, start |-> start, end |-> end, distance |-> distance,
     duration |-> duration, instruction |-> instruction, stops |-> stops]

RouteNameOf(route) ==
    IF route.route_short_name # "" THEN route.route_short_name ELSE route.route_long_name

\* One chosen leg, kept beside the result for the properties below (the
\* BusRouteResult itself carries only names and time strings)
Leg(routeId, info) ==
    [route_id |-> routeId, trip |-> info.trip, start |-> info.start, end |-> info.end]

buildRouteResult(b, pickup, drop, pStopItem, dStopItem, routeId, tripInfo, routeName) ==
    LET pSt == tripInfo.start
        dSt == tripInfo.end
        busDurationMins == calculateDurationInMinutes(pSt.departure_time, dSt.arrival_time)
        walk1Dist == pStopItem.distance
        walk1TimeMins == WalkMinutes(walk1Dist)
        walk2Dist == dStopItem.distance
        walk2TimeMins == WalkMinutes(walk2Dist)
        routeStops == extractRouteStops(b, tripInfo.stops, pSt.stop_sequence, dSt.stop_sequence)
        busDist == Len(routeStops) * 500      \* routeStops.length * 0.5 km
        totalDuration == walk1TimeMins + busDurationMins + walk2TimeMins
    IN  [route_name |-> <<routeName>>,
         start_stop |-> pStopItem.stop.stop_name,
         end_stop |-> dStopItem.stop.stop_name,
         departure_time |-> pSt.departure_time,
         arrival_time |-> dSt.arrival_time,
         duration |-> totalDuration,
         stops_count |-> Len(routeStops),
         fare |-> calculateBusFare(busDist),
         segments |->
            << Segment("walk", Place(pickup.lat, pickup.lng, "Your Location"),
                       StopPlace(pStopItem.stop), walk1Dist, walk1TimeMins, "Walk", <<>>),
               Segment("bus", StopPlace(pStopItem.stop), StopPlace(dStopItem.stop),
                       busDist, busDurationMins, "Bus", routeStops),
               Segment("walk", StopPlace(dStopItem.stop),
                       Place(drop.lat, drop.lng, "Destination"), walk2Dist, walk2TimeMins,
                       "Walk", <<>>) >>,
         total_distance |-> walk1Dist + walk2Dist + busDist,
         legs |-> <<Leg(routeId, tripInfo)>>]

\* One slab over the whole ride instead of one per leg
IntegratedFare(leg1Dist, leg2Dist) == calculateBusFare(leg1Dist + leg2Dist)

\* const totalFare = calculateBusFare(leg1DistKm) + calculateBusFare(leg2DistKm)
TransferFare(leg1Dist, leg2Dist) == calculateBusFare(leg1Dist) + calculateBusFare(leg2Dist)

buildTransferRouteResult(b, pickup, drop, pStopItem, dStopItem, pRouteId, dRouteId, route1, route2, trip1Info, trip2Info, transferStop) ==
    LET pSt == trip1Info.start
        tSt1 == trip1Info.end
        tSt2 == trip2Info.start
        dSt == trip2Info.end
        leg1Stops == extractRouteStops(b, trip1Info.stops, pSt.stop_sequence, tSt1.stop_sequence)
        leg2Stops == extractRouteStops(b, trip2Info.stops, tSt2.stop_sequence, dSt.stop_sequence)
        dur1 == calculateDurationInMinutes(pSt.departure_time, tSt1.arrival_time)
        transferWait == calculateDurationInMinutes(tSt1.arrival_time, tSt2.departure_time)
        dur2 == calculateDurationInMinutes(tSt2.departure_time, dSt.arrival_time)
        walk1Dist == pStopItem.distance
        walk1Time == WalkMinutes(walk1Dist)
        walk2Dist == dStopItem.distance
        walk2Time == WalkMinutes(walk2Dist)
        leg1Dist == calculateRouteDistance(leg1Stops)
        leg2Dist == calculateRouteDistance(leg2Stops)
    IN  [route_name |-> <<RouteNameOf(route1), RouteNameOf(route2)>>,
         start_stop |-> pStopItem.stop.stop_name,
         end_stop |-> dStopItem.stop.stop_name,
         departure_time |-> pSt.departure_time,
         arrival_time |-> dSt.arrival_time,
         duration |-> walk1Time + dur1 + transferWait + dur2 + walk2Time,
         stops_count |-> Len(leg1Stops) + Len(leg2Stops),
         fare |-> TransferFare(leg1Dist, leg2Dist),
         segments |->
            << Segment("walk", Place(pickup.lat, pickup.lng, "Your Location"),
                       StopPlace(pStopItem.stop), walk1Dist, walk1Time, "Walk", <<>>),
               Segment("bus", StopPlace(pStopItem.stop), StopPlace(transferStop),
                       leg1Dist, dur1, "Bus", leg1Stops),
               Segment("walk", StopPlace(transferStop), StopPlace(transferStop),
                       0, transferWait, "Transfer", <<>>),
               Segment("bus", StopPlace(transferStop), StopPlace(dStopItem.stop),
                       leg2Dist, dur2, "Bus", leg2Stops),
               Segment("walk", StopPlace(dStopItem.stop),
                       Place(drop.lat, drop.lng, "Destination"), walk2Dist, walk2Time,
                       "Walk", <<>>) >>,
         total_distance |-> walk1Dist + walk2Dist + leg1Dist + leg2Dist,
         legs |-> <<Leg(pRouteId, trip1Info), Leg(dRouteId, trip2Info)>>]

(***************************************************************************)
(* services/bus.service.ts: the direct and the one-transfer search         *)
(***************************************************************************)
maxResults == 5
transferStopLimit == 5
maxWaitMinutes == 45
maxDurationMinutes == 240

RoutesAt(b, stopId) ==
    IF MapHas(b.routesByStop, stopId) THEN MapGet(b.routesByStop, stopId) ELSE <<>>

RECURSIVE PushUnderEach(_, _, _)
\* routes.forEach(rId => map.get(rId).push(item))
PushUnderEach(m, routeIds, item) ==
    IF routeIds = <<>> THEN m
    ELSE PushUnderEach(MapPush(m, Head(routeIds), item), Tail(routeIds), item)

RECURSIVE AllStopsByRoute(_, _, _)
\* pRoutesMap / dRoutesMap of findDirectRoutes: routeId -> every nearby stop
\* the route serves, nearest first
AllStopsByRoute(b, items, m) ==
    IF items = <<>> THEN m
    ELSE AllStopsByRoute(b, Tail(items),
                         PushUnderEach(m, RoutesAt(b, Head(items).stop.stop_id), Head(items)))

RECURSIVE SetIfAbsentEach(_, _, _)
\* routes.forEach(rId => { if (!map.has(rId)) map.set(rId, item) })
SetIfAbsentEach(m, routeIds, item) ==
    IF routeIds = <<>> THEN m
    ELSE SetIfAbsentEach(IF MapHas(m, Head(routeIds)) THEN m ELSE MapSet(m, Head(routeIds), item),
                         Tail(routeIds), item)

RECURSIVE NearestStopByRoute(_, _, _)
\* pRoutesMap / dRoutesMap of findTransferRoutes: routeId -> the nearest stop
NearestStopByRoute(b, items, m) ==
    IF items = <<>> THEN m
    ELSE NearestStopByRoute(b, Tail(items),
                            SetIfAbsentEach(m, RoutesAt(b, Head(items).stop.stop_id), Head(items)))

\* One pass of the innermost loop body of findDirectRoutes;
\* acc = [results, seenRoutes]
DirectPair(b, clk, pickup, drop, routeId, pStopItem, dStopItem, acc) ==
    LET routeStops == MapGet(b.stopsByRoute, routeId)
        pIndex == IndexOf(routeStops, pStopItem.stop.stop_id)
        dIndex == IndexOf(routeStops, dStopItem.stop.stop_id)
    IN  IF ~(pIndex # -1 /\ dIndex # -1 /\ pIndex < dIndex) THEN acc
        ELSE IF ~MapHas(b.routes, routeId) THEN acc
        ELSE LET route == MapGet(b.routes, routeId)
                 tripInfo == findTripForLeg(b, clk, routeId, pStopItem.stop.stop_id,
                                            dStopItem.stop.stop_id, NoAfterTime)
                 routeName == RouteNameOf(route)
                 uniqueKey == <<routeName, pStopItem.stop.stop_name, dStopItem.stop.stop_name>>
             IN  IF ~tripInfo.found \/ uniqueKey \in acc.seenRoutes THEN acc
                 ELSE [results |-> Append(acc.results,
                            buildRouteResult(b, pickup, drop, pStopItem, dStopItem,
                                             routeId, tripInfo, routeName)),
                       seenRoutes |-> acc.seenRoutes \cup {uniqueKey}]

RECURSIVE DirectOverDrops(_, _, _, _, _, _, _, _)
\* for (const dStopItem of potentialDStops): runs to the end of the list
DirectOverDrops(b, clk, pickup, drop, routeId, pStopItem, dItems, acc) ==
    IF dItems = <<>> THEN acc
    ELSE DirectOverDrops(b, clk, pickup, drop, routeId, pStopItem, Tail(dItems),
             DirectPair(b, clk, pickup, drop, routeId, pStopItem, Head(dItems), acc))

RECURSIVE DirectOverPickups(_, _, _, _, _, _, _, _)
\* for (const pStopItem of potentialPStops) { ...; if (results.length >= 5) break; }
DirectOverPickups(b, clk, pickup, drop, routeId, pItems, dItems, acc) ==
    IF pItems = <<>> THEN acc
    ELSE LET next == DirectOverDrops(b, clk, pickup, drop, routeId, Head(pItems), dItems, acc)
         IN  IF Len(next.results) >= maxResults THEN next
             ELSE DirectOverPickups(b, clk, pickup, drop, routeId, Tail(pItems), dItems, next)

RECURSIVE DirectOverRoutes(_, _, _, _, _, _, _, _)
\* for (const routeId of commonRouteIds) { ...; if (results.length >= 5) break; }
DirectOverRoutes(b, clk, pickup, drop, routeIds, pRoutesMap, dRoutesMap, acc) ==
    IF routeIds = <<>> THEN acc
    ELSE LET routeId == Head(routeIds)
             next == IF ~MapHas(b.stopsByRoute, routeId) THEN acc
                     ELSE DirectOverPickups(b, clk, pickup, drop, routeId,
                              MapGet(pRoutesMap, routeId), MapGet(dRoutesMap, routeId), acc)
         IN  IF MapHas(b.stopsByRoute, routeId) /\ Len(next.results) >= maxResults THEN next
             ELSE DirectOverRoutes(b, clk, pickup, drop, Tail(routeIds), pRoutesMap, dRoutesMap, next)

findDirectRoutes(b, clk, pickup, drop, pStops, dStops) ==
    LET pRoutesMap == AllStopsByRoute(b, pStops, EmptyMap)
        dRoutesMap == AllStopsByRoute(b, dStops, EmptyMap)
        InDrop(rId) == MapHas(dRoutesMap, rId)
        commonRouteIds == SelectSeq(MapKeys(pRoutesMap), InDrop)
    IN  DirectOverRoutes(b, clk, pickup, drop, commonRouteIds, pRoutesMap, dRoutesMap,
                         [results |-> <<>>, seenRoutes |-> {}]).results

RECURSIVE StopsToDropRoutes(_, _, _)
\* stopsToDropRoutes: stopId -> the drop-side routes whose sample trip calls it
StopsToDropRoutes(b, dRouteIds, m) ==
    IF dRouteIds = <<>> THEN m
    ELSE LET rId == Head(dRouteIds)
             stops == IF MapHas(b.stopsByRoute, rId) THEN MapGet(b.stopsByRoute, rId) ELSE <<>>
             UnderEach[k \in 0..Len(stops)] ==
                 IF k = 0 THEN m ELSE MapPush(UnderEach[k - 1], stops[k], rId)
         IN  StopsToDropRoutes(b, Tail(dRouteIds), UnderEach[Len(stops)])

\* A transfer wait that is accepted but breaks the 45 minute limit
WaitWithinAnHour(waitSec) == waitSec >= 0 /\ waitSec < 60 * 60

\* waitTime >= 0 && waitTime < 45, with waitTime = (dep2Sec - arr1Sec) / 60
ValidTransferWait(waitSec) == waitSec >= 0 /\ waitSec < maxWaitMinutes * 60

\* One pass of the innermost loop body of findTransferRoutes;
\* acc = [results, seenRoutes, threw]
TransferCandidate(b, clk, pickup, drop, pRouteId, pStopItem, transferStopId, dRouteId, dStopItem, acc) ==
    LET dRouteStops == MapGet(b.stopsByRoute, dRouteId)
        transferIndexInLeg2 == IndexOf(dRouteStops, transferStopId)
        dropIndexInLeg2 == IndexOf(dRouteStops, dStopItem.stop.stop_id)
        uniqueKey == <<pRouteId, transferStopId, dRouteId>>
    IN  IF ~(transferIndexInLeg2 # -1 /\ dropIndexInLeg2 # -1
             /\ transferIndexInLeg2 < dropIndexInLeg2) THEN acc
        ELSE IF uniqueKey \in acc.seenRoutes THEN acc
        ELSE IF ~MapHas(b.stops, transferStopId) THEN acc
        ELSE LET trip1Info == findTripForLeg(b, clk, pRouteId, pStopItem.stop.stop_id,
                                             transferStopId, NoAfterTime)
             IN  IF ~trip1Info.found THEN acc
                 ELSE LET arr1Sec == parseTimeSeconds(trip1Info.end.arrival_time)
                          trip2Info == findTripForLeg(b, clk, dRouteId, transferStopId,
                                           dStopItem.stop.stop_id, AfterTime(arr1Sec))
                      IN  IF ~trip2Info.found THEN acc
                          ELSE IF ~ValidTransferWait(
                                     parseTimeSeconds(trip2Info.start.departure_time) - arr1Sec)
                               THEN acc
                          \* route1.route_short_name of an undefined route: TypeError
                          ELSE IF ~MapHas(b.routes, pRouteId) \/ ~MapHas(b.routes, dRouteId)
                               THEN [acc EXCEPT !.threw = TRUE]
                          ELSE [acc EXCEPT
                                  !.results = Append(@,
                                      buildTransferRouteResult(b, pickup, drop, pStopItem,
                                          dStopItem, pRouteId, dRouteId,
                                          MapGet(b.routes, pRouteId), MapGet(b.routes, dRouteId),
                                          trip1Info, trip2Info, MapGet(b.stops, transferStopId))),
                                  !.seenRoutes = @ \cup {uniqueKey}]

\* The transfer search giving up after its first find
TransferDoneAtFirst(acc) == acc.threw \/ Len(acc.results) >= 1

\* if (results.length >= 5) return results, and the TypeError leaving the loops
TransferDone(acc) == acc.threw \/ Len(acc.results) >= maxResults

RECURSIVE TransferOverDropRoutes(_, _, _, _, _, _, _, _, _, _)
\* for (const dRouteId of connectingDropRoutes)
TransferOverDropRoutes(b, clk, pickup, drop, pRouteId, pStopItem, transferStopId, dRouteIds, dRoutesMap, acc) ==
    IF dRouteIds = <<>> \/ TransferDone(acc) THEN acc
    ELSE TransferOverDropRoutes(b, clk, pickup, drop, pRouteId, pStopItem, transferStopId,
             Tail(dRouteIds), dRoutesMap,
             TransferCandidate(b, clk, pickup, drop, pRouteId, pStopItem, transferStopId,
                               Head(dRouteIds), MapGet(dRoutesMap, Head(dRouteIds)), acc))

RECURSIVE TransferOverStops(_, _, _, _, _, _, _, _, _, _)
\* for (let i = pStartIndex + 1; i < pRouteStops.length; i++), i 0-based
TransferOverStops(b, clk, pickup, drop, pRouteId, pStopItem, i, connecting, dRoutesMap, acc) ==
    LET pRouteStops == MapGet(b.stopsByRoute, pRouteId)
    IN  IF i >= Len(pRouteStops) \/ TransferDone(acc) THEN acc
        ELSE LET transferStopId == pRouteStops[i + 1]
                 next == IF MapHas(connecting, transferStopId)
                         THEN TransferOverDropRoutes(b, clk, pickup, drop, pRouteId, pStopItem,
                                  transferStopId, MapGet(connecting, transferStopId),
                                  dRoutesMap, acc)
                         ELSE acc
             IN  TransferOverStops(b, clk, pickup, drop, pRouteId, pStopItem, i + 1,
                                   connecting, dRoutesMap, next)

RECURSIVE TransferOverRoutes(_, _, _, _, _, _, _, _, _)
\* for (const pRouteId of pRouteIds)
TransferOverRoutes(b, clk, pickup, drop, pRouteIds, pRoutesMap, connecting, dRoutesMap, acc) ==
    IF pRouteIds = <<>> \/ TransferDone(acc) THEN acc
    ELSE LET pRouteId == Head(pRouteIds)
             pStopItem == MapGet(pRoutesMap, pRouteId)
             pStartIndex == IF MapHas(b.stopsByRoute, pRouteId)
                            THEN IndexOf(MapGet(b.stopsByRoute, pRouteId), pStopItem.stop.stop_id)
                            ELSE -1
             next == IF pStartIndex = -1 THEN acc
                     ELSE TransferOverStops(b, clk, pickup, drop, pRouteId, pStopItem,
                                            pStartIndex + 1, connecting, dRoutesMap, acc)
         IN  TransferOverRoutes(b, clk, pickup, drop, Tail(pRouteIds), pRoutesMap, connecting,
                                dRoutesMap, next)

\* returns [results, threw]
findTransferRoutes(b, clk, pickup, drop, pStops, dStops) ==
    LET pRoutesMap == NearestStopByRoute(b, Slice0(pStops, transferStopLimit), EmptyMap)
        dRoutesMap == NearestStopByRoute(b, Slice0(dStops, transferStopLimit), EmptyMap)
        connecting == StopsToDropRoutes(b, MapKeys(dRoutesMap), EmptyMap)
    IN  TransferOverRoutes(b, clk, pickup, drop, MapKeys(pRoutesMap), pRoutesMap, connecting,
                           dRoutesMap, [results |-> <<>>, seenRoutes |-> {}, threw |-> FALSE])

\* parseInt(r.duration) of `${totalDuration} mins`: the integer written
DurationsOf(rs) == [i \in DOMAIN rs |-> rs[i].duration]

\* The five-result cut taken one too long
SliceSix(q) == Slice0(q, maxResults + 1)

\* .slice(0, 5)
SliceFive(q) == Slice0(q, maxResults)

NothingFound ==
    [status |-> "returned", directRoutes |-> <<>>, transferRoutes |-> <<>>, routes |-> <<>>]

\* const allRoutes = [...]; filter (dur < 240); sort by duration; slice(0, 5).
\* A TypeError thrown from the transfer search leaves findRoutes by exception.
MergeRoutes(directRoutes, transfer) ==
    IF transfer.threw
    THEN [NothingFound EXCEPT !.status = "threw", !.directRoutes = directRoutes]
    ELSE LET Short(r) == r.duration < maxDurationMinutes
             filteredRoutes == SelectSeq(directRoutes \o transfer.results, Short)
         IN  [status |-> "returned", directRoutes |-> directRoutes,
              transferRoutes |-> transfer.results,
              routes |-> SliceFive(SortBy(DurationsOf(filteredRoutes), filteredRoutes))]

\* step 3 of findRoutes: transfers are searched only when the direct search
\* found fewer than 5
WithTransferRoutes(b, clk, pickup, drop, pStops, dStops, directRoutes) ==
    MergeRoutes(directRoutes,
                IF Len(directRoutes) < maxResults
                THEN findTransferRoutes(b, clk, pickup, drop, pStops, dStops)
                ELSE [results |-> <<>>, threw |-> FALSE])

\* steps 2 and 3 of findRoutes, from the nearby stops of both endpoints
RoutesBetween(b, clk, pickup, drop, nearbyPickupStops, nearbyDropStops) ==
    IF Len(nearbyPickupStops) = 0 \/ Len(nearbyDropStops) = 0 THEN NothingFound
    ELSE WithTransferRoutes(b, clk, pickup, drop, nearbyPickupStops, nearbyDropStops,
                            findDirectRoutes(b, clk, pickup, drop,
                                             nearbyPickupStops, nearbyDropStops))

\* BusService.findRoutes: [status, directRoutes, transferRoutes, routes]
findRoutes(b, clk, pickup, drop) ==
    IF ~b.isLoaded THEN NothingFound
    ELSE RoutesBetween(b, clk, pickup, drop, findNearbyStopsWithDistance(b, pickup),
                       findNearbyStopsWithDistance(b, drop))

(***************************************************************************)
(* server.ts: the bodies of POST /api/compare-fares and /api/bus-routes    *)
(***************************************************************************)
\* A member of a JSON body: absent, a number (in 1e-5 degree, as every
\* coordinate here), or a string (its characters)
Absent == [kind |-> "absent", num |-> 0, text |-> <<>>]
JsonNumber(n) == [kind |-> "number", num |-> n, text |-> <<>>]
JsonString(chars) == [kind |-> "string", num |-> 0, text |-> chars]

\* !x is true of undefined, 0 and ""
Truthy(v) ==
    CASE v.kind = "absent" -> FALSE
      [] v.kind = "number" -> v.num # 0
      [] OTHER -> v.text # <<>>

NaN == [nan |-> TRUE, n |-> 0]
Finite(n) == [nan |-> FALSE, n |-> n]

DigitChars == <<"0", "1", "2", "3", "4", "5", "6", "7", "8", "9">>
IsDigit(c) == \E d \in 1..10 : DigitChars[d] = c
DigitOf(c) == (CHOOSE d \in 1..10 : DigitChars[d] = c) - 1

RECURSIVE DigitsOf(_)
DigitsOf(n) ==
    IF n < 10 THEN <<DigitChars[n + 1]>>
    ELSE Append(DigitsOf(n \div 10), DigitChars[(n % 10) + 1])

RECURSIVE StripZeros(_)
StripZeros(chars) ==
    IF chars # <<>> /\ chars[Len(chars)] = "0"
    THEN StripZeros(SubSeq(chars, 1, Len(chars) - 1))
    ELSE chars

\* Number.prototype.toString of a value with at most five decimals
NumberToString(n) ==
    (IF n < 0 THEN <<"-">> ELSE <<>>)
    \o DigitsOf(Abs(n) \div 100000)
    \o (IF Abs(n) % 100000 = 0 THEN <<>>
        ELSE <<".">> \o StripZeros(SubSeq(DigitsOf(100000 + (Abs(n) % 100000)), 2, 6)))

\* ToString, the first step of parseFloat(x)
ToStringJs(v) ==
    CASE v.kind = "absent" -> <<"u", "n", "d", "e", "f", "i", "n", "e", "d">>
      [] v.kind = "number" -> NumberToString(v.num)
      [] OTHER -> v.text

RECURSIVE TrimStart(_)
TrimStart(chars) ==
    IF chars # <<>> /\ Head(chars) = " " THEN TrimStart(Tail(chars)) ELSE chars

RECURSIVE DigitRun(_)
\* how many digits the text starts with
DigitRun(chars) ==
    IF chars = <<>> THEN 0
    ELSE IF IsDigit(Head(chars)) THEN 1 + DigitRun(Tail(chars)) ELSE 0

RECURSIVE DigitsValue(_, _)
DigitsValue(chars, acc) ==
    IF chars = <<>> THEN acc
    ELSE DigitsValue(Tail(chars), (acc * 10) + DigitOf(Head(chars)))

PowersOfTen == <<1, 10, 100, 1000, 10000, 100000>>

\* The number read from the longest prefix that is a decimal literal (sign,
\* digits, point, digits), NaN when there is none.  Decimals past the fifth
\* are below the resolution of the coordinates and dropped; exponents and
\* "Infinity" are not among the texts sent.
StringToNumber(chars) ==
    LET t == TrimStart(chars)
        signed == t # <<>> /\ Head(t) \in {"-", "+"}
        u == IF signed THEN Tail(t) ELSE t
        nInt == DigitRun(u)
        rest == SubSeq(u, nInt + 1, Len(u))
        frac == IF rest # <<>> /\ Head(rest) = "." THEN Tail(rest) ELSE <<>>
        nFrac == Min(DigitRun(frac), 5)
        magnitude == (DigitsValue(SubSeq(u, 1, nInt), 0) * 100000)
                     + (DigitsValue(SubSeq(frac, 1, nFrac), 0) * PowersOfTen[6 - nFrac])
    IN  IF nInt + DigitRun(frac) = 0 THEN NaN
        ELSE Finite(IF signed /\ Head(t) = "-" THEN 0 - magnitude ELSE magnitude)

parseFloat(v) == StringToNumber(ToStringJs(v))

\* if (!pickup || !drop || !pickup.lat || !pickup.lng || !drop.lat || !drop.lng)
Rejected400(body) ==
    IF ~body.pickup.present \/ ~body.drop.present THEN TRUE
    ELSE \/ ~Truthy(body.pickup.lat) \/ ~Truthy(body.pickup.lng)
         \/ ~Truthy(body.drop.lat) \/ ~Truthy(body.drop.lng)

\* { lat: parseFloat(x.lat), lng: parseFloat(x.lng) }
GeoLocationOf(obj) == [lat |-> parseFloat(obj.lat), lng |-> parseFloat(obj.lng)]

HasNaN(loc) == loc.lat.nan \/ loc.lng.nan
Numbers(loc) == [lat |-> loc.lat.n, lng |-> loc.lng.n]

\* busService.findRoutes on the parsed locations.  With a NaN member every
\* calculateDistance is NaN, "NaN <= maxDistanceKm" is false for every stop,
\* and the empty nearby list makes findRoutes return [].
findRoutesParsed(b, clk, pickupLoc, dropLoc) ==
    IF ~b.isLoaded THEN NothingFound
    ELSE IF HasNaN(pickupLoc) \/ HasNaN(dropLoc) THEN NothingFound
    ELSE findRoutes(b, clk, Numbers(pickupLoc), Numbers(dropLoc))

NoArgs == [pickup |-> [lat |-> NaN, lng |-> NaN], drop |-> [lat |-> NaN, lng |-> NaN]]

Exchange(endpoint, phase, body, forwarded, args, status) ==
    [endpoint |-> endpoint, phase |-> phase, body |-> body, forwarded |-> forwarded,
     args |-> args, status |-> status]

\* app.post('/api/bus-routes', ...)
postBusRoutes(b, clk, body) ==
    IF Rejected400(body)
    THEN Exchange("bus-routes", "replied", body, FALSE, NoArgs, 400)
    ELSE Exchange("bus-routes", "replied", body, TRUE,
                  [pickup |-> GeoLocationOf(body.pickup), drop |-> GeoLocationOf(body.drop)],
                  busRoutesReply(findRoutesParsed(b, clk, GeoLocationOf(body.pickup),
                                                  GeoLocationOf(body.drop))).status)

\* app.post('/api/compare-fares', ...) up to "await fareService.getFareEstimates"
postCompareFares(body) ==
    IF Rejected400(body)
    THEN Exchange("compare-fares", "replied", body, FALSE, NoArgs, 400)
    ELSE Exchange("compare-fares", "awaiting", body, TRUE,
                  [pickup |-> GeoLocationOf(body.pickup), drop |-> GeoLocationOf(body.drop)], 0)

\* the rest of the handler: res.json(...) when the aggregator's promise
\* resolves, the catch's 500 when it rejects
compareFaresReply(exchange, outcome) ==
    [exchange EXCEPT !.phase = "replied",
                     !.status = IF outcome = "resolved" THEN 200 ELSE 500]

(***************************************************************************)
(* The planner's world: GTFS feeds, the wall clock, the requests           *)
(***************************************************************************)
\* How many midnights pass, and how many clock steps within a day
MaxDays == 1
MaxClockTicks == 1

ClockStepSec == 12 * 60
StartSec == 9 * 3600 + 55 * 60          \* 09:55:00
StartDate == 20261106                   \* a Friday
StartDay == 5

\* "HH:MM:SS" of a number of minutes since midnight
HMS(minutes) == <<minutes \div 60, minutes % 60, 0>>

StopRow(id, lat, lon) == [stop_id |-> id, stop_name |-> id, stop_lat |-> lat, stop_lon |-> lon]
RouteRow(id) == [route_id |-> id, route_short_name |-> id, route_long_name |-> ""]
TripRow(routeId, tripId) == [route_id |-> routeId, service_id |-> "SVC", trip_id |-> tripId]
StopTimeRow(tripId, minutes, stopId, seq) ==
    [trip_id |-> tripId, arrival_time |-> HMS(minutes), departure_time |-> HMS(minutes),
     stop_id |-> stopId, stop_sequence |-> seq]

CalendarRow(weekdayFlag, weekendFlag) ==
    [service_id |-> "SVC", start_date |-> 20260101, end_date |-> 20261231,
     flags |-> [d \in Range(days) |->
                  IF d \in {"saturday", "sunday"} THEN weekendFlag ELSE weekdayFlag]]

AllFiles == {"stops", "stop_times", "trips", "routes", "calendar"}

\* Stop spacing: 1 puts S1..S4 a few hundred metres apart (all within reach
\* of both ends of a request), 10 puts them kilometres apart
Scales == {1, 10}
\* Minutes between T1's arrival at S3 and T2's departure from it
TransferWaits == {-5, 5, 44, 45, 50}

StopRows(scale) ==
    << StopRow("S1", 2870000, 7710000),
       StopRow("S2", 2870000 + 200 * scale, 7710000 + 200 * scale),
       StopRow("S3", 2870000 + 500 * scale, 7710000 + 500 * scale),
       StopRow("S4", 2870000 + 800 * scale, 7710000 + 800 * scale) >>

T1Rows ==
    << StopTimeRow("T1", 600, "S1", 1), StopTimeRow("T1", 605, "S2", 2),
       StopTimeRow("T1", 610, "S3", 3) >>

T2Rows(wait) ==
    << StopTimeRow("T2", 610 + wait, "S3", 1), StopTimeRow("T2", 620 + wait, "S4", 2) >>

\* Scenario S1: route R1, trip T1 calling S1, S2, S3, service on weekdays
FeedS1 ==
    [files |-> AllFiles, stops |-> SubSeq(StopRows(1), 1, 3), routes |-> <<RouteRow("R1")>>,
     trips |-> <<TripRow("R1", "T1")>>, stop_times |-> T1Rows,
     calendar |-> <<CalendarRow("1", "0")>>]

\* Scenario S3: as S1, the service runs at weekends only
FeedS3 == [FeedS1 EXCEPT !.calendar = <<CalendarRow("0", "1")>>]

\* Scenario S4: S1 plus route R2, trip T2 calling S3 and S4
FeedS4(scale, wait) ==
    [files |-> AllFiles, stops |-> StopRows(scale),
     routes |-> <<RouteRow("R1"), RouteRow("R2")>>,
     trips |-> <<TripRow("R1", "T1"), TripRow("R2", "T2")>>,
     stop_times |-> T1Rows \o T2Rows(wait),
     calendar |-> <<CalendarRow("1", "0")>>]

\* R1 with a second, earlier trip T3 whose rows come last and in reverse
T3Rows ==
    << StopTimeRow("T3", 590, "S3", 3), StopTimeRow("T3", 585, "S2", 2),
       StopTimeRow("T3", 580, "S1", 1) >>

FeedTwoTrips ==
    [FeedS1 EXCEPT !.trips = <<TripRow("R1", "T1"), TripRow("R1", "T3")>>,
                   !.stop_times = T1Rows \o T3Rows]

\* stop_times.csv absent
FeedNoStopTimes == [FeedS1 EXCEPT !.files = AllFiles \ {"stop_times"}, !.stop_times = <<>>]

\* stops.csv absent, trips.csv absent
FeedNoStops == [FeedS1 EXCEPT !.files = AllFiles \ {"stops"}, !.stops = <<>>]
FeedNoTrips == [FeedS1 EXCEPT !.files = AllFiles \ {"trips"}, !.trips = <<>>]

\* routes.csv absent from a feed that otherwise offers a transfer
FeedNoRoutes == [FeedS4(10, 5) EXCEPT !.files = AllFiles \ {"routes"}, !.routes = <<>>]

\* trips.csv names a route that routes.csv does not list
FeedUnlistedRoute == [FeedS4(10, 5) EXCEPT !.routes = <<RouteRow("R1")>>]

Feeds ==
    {FeedS1, FeedS3, FeedTwoTrips, FeedNoStopTimes, FeedNoStops, FeedNoTrips, FeedNoRoutes,
     FeedUnlistedRoute}
    \cup {FeedS4(scale, wait) : scale \in Scales, wait \in TransferWaits}

NearS1 == [lat |-> 2870010, lng |-> 7710010]
NearS3 == [lat |-> 2870510, lng |-> 7710510]
NearS4(scale) == [lat |-> 2870010 + 800 * scale, lng |-> 7710010 + 800 * scale]

Query(pickup, drop, at) == [pickup |-> pickup, drop |-> drop, at |-> at]

\* pickup/drop pairs: scenario S1, scenario S2 (nowhere near a stop),
\* scenario S4 at either spacing, and S4 backwards
Endpoints ==
    { <<NearS1, NearS3>>,
      <<[lat |-> 0, lng |-> 0], [lat |-> 100000, lng |-> 100000]>>,
      <<NearS4(1), NearS1>> }
    \cup { <<NearS1, NearS4(scale)>> : scale \in Scales }

NotAsked ==
    [status |-> "none", directRoutes |-> <<>>, transferRoutes |-> <<>>, routes |-> <<>>]

\* new BusService(): loadData runs in the constructor; the aggregator takes
\* no part in the planner's behaviours
InitBus ==
    /\ now = 0 /\ cache = EmptyCache /\ calls = NoCalls
    /\ feed \in Feeds
    /\ bus = loadData(feed)
    /\ clock = [date |-> StartDate, day |-> StartDay, sec |-> StartSec]
    /\ query = "none"
    /\ routesOut = NotAsked
    /\ http = "none" /\ calc = "none" /\ load = "none" /\ chrome = "none"

\* busService.findRoutes(pickup, drop)
FindRoutes(pickup, drop) ==
    /\ query' = Query(pickup, drop, clock)
    /\ routesOut' = findRoutes(bus, clock, pickup, drop)
    /\ UNCHANGED <<feed, bus, clock>>

ClockTick ==
    /\ clock.sec < StartSec + MaxClockTicks * ClockStepSec
    /\ clock' = [clock EXCEPT !.sec = @ + ClockStepSec]
    /\ UNCHANGED <<feed, bus, query, routesOut>>

NextDay ==
    /\ clock.date < StartDate + MaxDays
    /\ clock' = [date |-> clock.date + 1, day |-> (clock.day + 1) % 7, sec |-> StartSec]
    /\ UNCHANGED <<feed, bus, query, routesOut>>

NextBus ==
    \/ \E e \in Endpoints : FindRoutes(e[1], e[2]) /\ UNCHANGED <<fareVars, apiVars, calcVars, loadVars, browserVars>>
    \/ ClockTick /\ UNCHANGED <<fareVars, apiVars, calcVars, loadVars, browserVars>>
    \/ NextDay /\ UNCHANGED <<fareVars, apiVars, calcVars, loadVars, browserVars>>

SpecBus == InitBus /\ [][NextBus]_vars

(***************************************************************************)
(* The server's world: request bodies, one request in hand at a time       *)
(***************************************************************************)
\* what a client may send for a coordinate whose proper value is n, written
\* out as text
ValuesFor(n, text) ==
    {Absent, JsonNumber(0), JsonNumber(n), JsonString(text),
     JsonString(<<"a", "b", "c">>), JsonString(<<>>)}

PickupLats == ValuesFor(NearS1.lat, <<"2", "8", ".", "7", "0", "0", "1">>)
PickupLngs == ValuesFor(NearS1.lng, <<"7", "7", ".", "1", "0", "0", "1">>)
DropLats == ValuesFor(NearS4(10).lat, <<"2", "8", ".", "7", "8", "0", "1">>)
DropLngs == ValuesFor(NearS4(10).lng, <<"7", "7", ".", "1", "8", "0", "1">>)

NoObject == [present |-> FALSE, lat |-> Absent, lng |-> Absent]
JsonObject(lat, lng) == [present |-> TRUE, lat |-> lat, lng |-> lng]

Bodies ==
    {[pickup |-> JsonObject(a, b), drop |-> JsonObject(c, d)] :
        a \in PickupLats, b \in PickupLngs, c \in DropLats, d \in DropLngs}
    \cup {[pickup |-> NoObject, drop |-> JsonObject(JsonNumber(NearS4(10).lat), JsonNumber(NearS4(10).lng))],
          [pickup |-> JsonObject(JsonNumber(NearS1.lat), JsonNumber(NearS1.lng)), drop |-> NoObject]}

ApiFeeds == {FeedS4(10, 5), FeedNoRoutes}

NoRequest ==
    Exchange("none", "idle", [pickup |-> NoObject, drop |-> NoObject], FALSE, NoArgs, 0)

\* getFareEstimates settles one way or the other
Outcomes == {"resolved", "rejected"}

InitApi ==
    /\ now = 0 /\ cache = EmptyCache /\ calls = NoCalls
    /\ feed \in ApiFeeds
    /\ bus = loadData(feed)
    /\ clock = [date |-> StartDate, day |-> StartDay, sec |-> StartSec]
    /\ query = "none"
    /\ routesOut = NotAsked
    /\ http = NoRequest
    /\ calc = "none" /\ load = "none" /\ chrome = "none"

PostBusRoutes(body) ==
    /\ http.phase = "idle"
    /\ http' = postBusRoutes(bus, clock, body)

PostCompareFares(body) ==
    /\ http.phase = "idle"
    /\ http' = postCompareFares(body)

CompareFaresSettles(outcome) ==
    /\ http.phase = "awaiting"
    /\ http' = compareFaresReply(http, outcome)

\* the response is sent; the server takes the next request
ResponseSent ==
    /\ http.phase = "replied"
    /\ http' = NoRequest

NextApi ==
    \/ \E body \in Bodies : PostBusRoutes(body) /\ UNCHANGED <<fareVars, busVars, calcVars, loadVars, browserVars>>
    \/ \E body \in Bodies : PostCompareFares(body) /\ UNCHANGED <<fareVars, busVars, calcVars, loadVars, browserVars>>
    \/ \E outcome \in Outcomes : CompareFaresSettles(outcome) /\ UNCHANGED <<fareVars, busVars, calcVars, loadVars, browserVars>>
    \/ ResponseSent /\ UNCHANGED <<fareVars, busVars, calcVars, loadVars, browserVars>>

SpecApi == InitApi /\ [][NextApi]_vars

(***************************************************************************)
(* The fallback estimator's world: rides, classes, surge draws             *)
(***************************************************************************)
\* 1.0 + Math.random() * 0.2 in permille: from 1.0 up to just under 1.2
Surges == {1000, 1050, 1100, 1199}

\* a ride of no length, two of about 90 m and 4.6 km (test-api.js), one
\* across Delhi (test-scraper.ts)
Rides ==
    { [pickup |-> [lat |-> 1297160, lng |-> 7759460], drop |-> [lat |-> 1297160, lng |-> 7759460]],
      [pickup |-> [lat |-> 1297160, lng |-> 7759460], drop |-> [lat |-> 1297240, lng |-> 7759460]],
      [pickup |-> [lat |-> 1297160, lng |-> 7759460], drop |-> [lat |-> 1293520, lng |-> 7762450]],
      [pickup |-> [lat |-> 2874990, lng |-> 7711750], drop |-> [lat |-> 2863040, lng |-> 7721770]] }

InitCalc ==
    /\ now = 0 /\ cache = EmptyCache /\ calls = NoCalls
    /\ feed = "unread" /\ bus = "unbuilt" /\ clock = "unread"
    /\ query = "none" /\ routesOut = <<>>
    /\ http = "none" /\ load = "none" /\ chrome = "none"
    /\ calc \in {[type |-> t, pickup |-> r.pickup, drop |-> r.drop, surge |-> s,
                   done |-> FALSE, fare |-> 0, quotes |-> <<>>] :
                      t \in VehicleClasses, r \in Rides, s \in Surges}

\* calculateFare(calculateDistance(...), type)
CalculateFare ==
    /\ ~calc.done
    /\ calc' = [calc EXCEPT !.done = TRUE,
                            !.fare = calculateFare(calculateDistance(calc.pickup.lat, calc.pickup.lng,
                                                                     calc.drop.lat, calc.drop.lng),
                                                   calc.type, calc.surge)]

\* an adapter's getMockData(pickup, drop)
GetMockData(a) ==
    /\ calc.quotes = <<>>
    /\ calc' = [calc EXCEPT !.quotes = getMockData(adapters[a], calc.pickup, calc.drop,
                                                   <<calc.surge, calc.surge, calc.surge>>)]

NextCalc ==
    \/ CalculateFare /\ UNCHANGED <<fareVars, busVars, apiVars, loadVars, browserVars>>
    \/ \E a \in AdapterIds : GetMockData(a) /\ UNCHANGED <<fareVars, busVars, apiVars, loadVars, browserVars>>

SpecCalc == InitCalc /\ [][NextCalc]_vars

(***************************************************************************)
(* services/bus.service.ts: loadData on rows whose numeric cells are still *)
(* the text of the csv file                                                *)
(***************************************************************************)
\* parseInt(text): the leading integer, NaN when the text starts with none
parseInt(chars) ==
    LET t == TrimStart(chars)
        signed == t # <<>> /\ Head(t) \in {"-", "+"}
        u == IF signed THEN Tail(t) ELSE t
        n == DigitRun(u)
        magnitude == DigitsValue(SubSeq(u, 1, n), 0)
    IN  IF n = 0 THEN NaN
        ELSE Finite(IF signed /\ Head(t) = "-" THEN 0 - magnitude ELSE magnitude)

\* { ...s, stop_lat: parseFloat(s.stop_lat), stop_lon: parseFloat(s.stop_lon) }
parseStopRows(rows) ==
    [i \in DOMAIN rows |->
        [rows[i] EXCEPT !.stop_lat = StringToNumber(@), !.stop_lon = StringToNumber(@)]]

\* { ...s, stop_sequence: parseInt(s.stop_sequence) }
parseStopTimeRows(rows) ==
    [i \in DOMAIN rows |-> [rows[i] EXCEPT !.stop_sequence = parseInt(@)]]

\* the stop table and the stop-time indices loadData builds: every row read
\* is set or pushed
loadRows(raw) ==
    LET trips == SetAll("trip_id", raw.trips, EmptyMap)
        idx == IndexStopTimes(parseStopTimeRows(raw.stop_times), trips,
                   [stopTimesByStopId |-> EmptyMap, stopTimesByTripId |-> EmptyMap,
                    routesByStop |-> EmptyMap])
    IN  [phase |-> "loaded", raw |-> raw,
         stops |-> SetAll("stop_id", parseStopRows(raw.stops), EmptyMap),
         stopTimesByStopId |-> idx.stopTimesByStopId,
         stopTimesByTripId |-> idx.stopTimesByTripId]

RawStop(id, lat, lon) == [stop_id |-> id, stop_name |-> id, stop_lat |-> lat, stop_lon |-> lon]
RawStopTime(stopId, seq, minutes) ==
    [trip_id |-> "T1", stop_id |-> stopId, stop_sequence |-> seq,
     arrival_time |-> HMS(minutes), departure_time |-> HMS(minutes)]

\* what a cell of stops.csv or stop_times.csv may hold: a number, a word,
\* nothing
LatTexts == {<<"2", "8", ".", "7">>, <<"n", "/", "a">>, <<>>}
LonTexts == {<<"7", "7", ".", "1">>, <<"e", "a", "s", "t">>}
SequenceTexts == {<<"1">>, <<"2">>, <<"x">>, <<>>}

RawFeeds ==
    {[trips |-> <<TripRow("R1", "T1")>>,
      stops |-> <<RawStop("S1", a, b), RawStop("S2", c, d)>>,
      stop_times |-> <<RawStopTime("S1", p, 600), RawStopTime("S2", q, 605)>>] :
        a \in LatTexts, b \in LonTexts, c \in LatTexts, d \in LonTexts,
        p \in SequenceTexts, q \in SequenceTexts}

\* the files are on disk, nothing is loaded yet
InitLoad ==
    /\ now = 0 /\ cache = EmptyCache /\ calls = NoCalls
    /\ feed = "unread" /\ bus = "unbuilt" /\ clock = "unread"
    /\ query = "none" /\ routesOut = <<>>
    /\ http = "none" /\ calc = "none" /\ chrome = "none"
    /\ load \in {[phase |-> "unread", raw |-> raw, stops |-> EmptyMap,
                   stopTimesByStopId |-> EmptyMap, stopTimesByTripId |-> EmptyMap] :
                      raw \in RawFeeds}

\* new BusService(): the constructor runs loadData
LoadRows ==
    /\ load.phase = "unread"
    /\ load' = loadRows(load.raw)

NextLoad == LoadRows /\ UNCHANGED <<fareVars, busVars, apiVars, calcVars, browserVars>>

SpecLoad == InitLoad /\ [][NextLoad]_vars

(***************************************************************************)
(* services/browser.service.ts, its callers in server.ts and the page      *)
(* handling shared by the three adapters                                   *)
(*                                                                         *)
(* Browsers are numbered in the order chromium.launch is invoked.  Every   *)
(* await is a point where another caller may run, so each caller advances   *)
(* one await at a time.                                                    *)
(***************************************************************************)
\* private browser: Browser | null = null
NoBrowser == 0

\* Two producers of a fan-out, each asking for a page in its getFareEstimate
\* (the three adapters share this code), and the start-up code
Producers == {"ola", "uber"}
Callers == Producers \cup {"server"}

\* pc: where the caller stands.  launching: the browser its chromium.launch
\* will resolve with.  owner: the browser its newContext is called on.
\* context, page: what became of the context and the page created for it.
\* held: the adapter's locals page and context are set.  path: how its try
\* block ended.  threw: its finally block threw.
IdleCaller ==
    [pc |-> "idle", launching |-> NoBrowser, owner |-> NoBrowser,
     context |-> "none", page |-> "none", held |-> FALSE, path |-> "none", threw |-> FALSE]

\* init() up to its await: if (!this.browser) ... await chromium.launch(...);
\* otherwise the caller goes on at "after"
init(st, p, after) ==
    IF st.browser = NoBrowser
    THEN [st EXCEPT !.launched = @ + 1,
                    !.callers[p].pc = "launching",
                    !.callers[p].launching = st.launched + 1]
    ELSE [st EXCEPT !.callers[p].pc = after, !.callers[p].owner = st.browser]

\* browser.close() closes the contexts and pages of that browser
CloseBrowser(st, b) ==
    [st EXCEPT !.live = @ \ {b},
               !.callers = [p \in Callers |->
                    IF st.callers[p].owner = b
                    THEN [st.callers[p] EXCEPT
                            !.context = IF @ = "open" THEN "closed" ELSE @,
                            !.page = IF @ = "open" THEN "closed" ELSE @]
                    ELSE st.callers[p]]]

\* The process runs until the SIGINT handler reaches process.exit(0)
Running == chrome.shutdown # "exited"

InitBrowser ==
    /\ now = 0 /\ cache = EmptyCache /\ calls = NoCalls
    /\ feed = "unread" /\ bus = "unbuilt" /\ clock = "unread"
    /\ query = "none" /\ routesOut = <<>>
    /\ http = "none" /\ calc = "none" /\ load = "none"
    /\ chrome = [browser |-> NoBrowser, launched |-> 0, live |-> {},
                 callers |-> [p \in Callers |-> IdleCaller], shutdown |-> "idle"]

\* server.ts: BrowserService.getInstance().init().catch(...), not awaited
ServerInit ==
    /\ Running /\ chrome.callers["server"].pc = "idle"
    /\ chrome' = init(chrome, "server", "done")

\* getNewPage up to its first await: if (!this.browser) await this.init();
\* else this.browser!.newContext(...) is called on the browser it finds
GetNewPage(p) ==
    /\ Running /\ chrome.callers[p].pc = "idle"
    /\ chrome' = init(chrome, p, "newContext")

\* chromium.launch resolves: this.browser = <the new browser>; the server's
\* init is done, a producer goes on to this.browser!.newContext(...)
LaunchResolves(p) ==
    /\ Running /\ chrome.callers[p].pc = "launching"
    /\ chrome' = [chrome EXCEPT
            !.browser = chrome.callers[p].launching,
            !.live = @ \cup {chrome.callers[p].launching},
            !.callers[p].owner = chrome.callers[p].launching,
            !.callers[p].pc = IF p = "server" THEN "done" ELSE "newContext"]

\* const context = await this.browser!.newContext(...): rejects on a browser
\* that has been closed, and getNewPage rejects with it
NewContext(p) ==
    /\ Running /\ chrome.callers[p].pc = "newContext"
    /\ IF chrome.callers[p].owner \in chrome.live
       THEN chrome' = [chrome EXCEPT !.callers[p].context = "open",
                                     !.callers[p].pc = "newPage"]
       ELSE chrome' = [chrome EXCEPT !.callers[p].path = "newContextFailed",
                                     !.callers[p].pc = "settled"]

\* const page = await context.newPage(); return { page, context }.  When it
\* rejects, getNewPage rejects: the adapter's catch returns the estimates and
\* its finally finds page and context still null
NewPage(p, ok) ==
    /\ Running /\ chrome.callers[p].pc = "newPage"
    /\ IF ok /\ chrome.callers[p].context = "open"
       THEN chrome' = [chrome EXCEPT !.callers[p].page = "open",
                                     !.callers[p].held = TRUE,
                                     !.callers[p].pc = "scraping"]
       ELSE chrome' = [chrome EXCEPT !.callers[p].path = "newPageFailed",
                                     !.callers[p].pc = "settled"]

\* The rest of the try block: it returns scraped quotes, returns the
\* estimates early, or throws into the catch that returns the estimates
TryPaths == {"success", "fallback", "exception"}

Scrape(p, path) ==
    /\ Running /\ chrome.callers[p].pc = "scraping"
    /\ chrome' = [chrome EXCEPT !.callers[p].path = path, !.callers[p].pc = "finally"]

\* finally { if (page) await page.close(); ... }: a rejection leaves the
\* finally block at once
ClosePage(p, ok) ==
    /\ Running /\ chrome.callers[p].pc = "finally"
    /\ IF ok
       THEN chrome' = [chrome EXCEPT !.callers[p].page = "closed",
                                     !.callers[p].pc = "closeContext"]
       ELSE chrome' = [chrome EXCEPT !.callers[p].threw = TRUE,
                                     !.callers[p].pc = "settled"]

\* finally { ...; if (context) await context.close(); }
CloseContext(p) ==
    /\ Running /\ chrome.callers[p].pc = "closeContext"
    /\ chrome' = [chrome EXCEPT !.callers[p].context = "closed",
                                !.callers[p].pc = "settled"]

\* SIGINT: close() up to its await: if (this.browser) await this.browser.close()
Close ==
    /\ chrome.shutdown = "idle"
    /\ IF chrome.browser # NoBrowser
       THEN chrome' = [CloseBrowser(chrome, chrome.browser) EXCEPT !.shutdown = "closing"]
       ELSE chrome' = [chrome EXCEPT !.shutdown = "exited"]

\* close() after its await: this.browser = null; then process.exit(0)
CloseDone ==
    /\ chrome.shutdown = "closing"
    /\ chrome' = [chrome EXCEPT !.browser = NoBrowser, !.shutdown = "exited"]

NextBrowser ==
    \/ ServerInit /\ UNCHANGED <<fareVars, busVars, apiVars, calcVars, loadVars>>
    \/ \E p \in Producers : GetNewPage(p) /\ UNCHANGED <<fareVars, busVars, apiVars, calcVars, loadVars>>
    \/ \E p \in Callers : LaunchResolves(p) /\ UNCHANGED <<fareVars, busVars, apiVars, calcVars, loadVars>>
    \/ \E p \in Producers : NewContext(p) /\ UNCHANGED <<fareVars, busVars, apiVars, calcVars, loadVars>>
    \/ \E p \in Producers, ok \in BOOLEAN : NewPage(p, ok) /\ UNCHANGED <<fareVars, busVars, apiVars, calcVars, loadVars>>
    \/ \E p \in Producers, path \in TryPaths : Scrape(p, path) /\ UNCHANGED <<fareVars, busVars, apiVars, calcVars, loadVars>>
    \/ \E p \in Producers, ok \in BOOLEAN : ClosePage(p, ok) /\ UNCHANGED <<fareVars, busVars, apiVars, calcVars, loadVars>>
    \/ \E p \in Producers : CloseContext(p) /\ UNCHANGED <<fareVars, busVars, apiVars, calcVars, loadVars>>
    \/ Close /\ UNCHANGED <<fareVars, busVars, apiVars, calcVars, loadVars>>
    \/ CloseDone /\ UNCHANGED <<fareVars, busVars, apiVars, calcVars, loadVars>>

SpecBrowser == InitBrowser /\ [][NextBrowser]_vars

NextFare ==
    \/ \E c \in CallIds, req \in Requests : StartCall(c, req) /\ UNCHANGED <<busVars, apiVars, calcVars, loadVars, browserVars>>
    \/ \E c \in CallIds, a \in AdapterIds : ProducerSettles(c, a) /\ UNCHANGED <<busVars, apiVars, calcVars, loadVars, browserVars>>
    \/ Tick /\ UNCHANGED <<busVars, apiVars, calcVars, loadVars, browserVars>>

SpecFare == InitFare /\ [][NextFare]_vars

\* The aggregator under the hypothesis that a producer which was started
\* settles in the end: while some producer is pending, one of the pending
\* ones settles.  The clock and the arrival of requests are under no such
\* obligation.
\* Both calls ask for the same ride, so the second one is a hit, a miss on
\* an expired entry or a second fan-out running beside the first
LiveRequests == {[pickup |-> [lat |-> 1297160, lng |-> 7759460],
                  drop |-> [lat |-> 1293520, lng |-> 7762450]]}

NextFareLive ==
    \/ \E c \in CallIds, req \in LiveRequests : StartCall(c, req) /\ UNCHANGED <<busVars, apiVars, calcVars, loadVars, browserVars>>
    \/ \E c \in CallIds, a \in AdapterIds : ProducerSettles(c, a) /\ UNCHANGED <<busVars, apiVars, calcVars, loadVars, browserVars>>
    \/ Tick /\ UNCHANGED <<busVars, apiVars, calcVars, loadVars, browserVars>>

SpecFareLive ==
    /\ InitFare /\ [][NextFareLive]_vars
    /\ WF_vars(\E c \in CallIds, a \in AdapterIds :
                  ProducerSettles(c, a) /\ UNCHANGED <<busVars, apiVars, calcVars, loadVars, browserVars>>)

(***************************************************************************)
(* Properties of the aggregator                                            *)
(***************************************************************************)
SameKey(c1, c2) ==
    getCacheKey(calls[c1].pickup, calls[c1].drop) = getCacheKey(calls[c2].pickup, calls[c2].drop)

QuotesOf(platformName, quotes) ==
    LET OfPlatform(q) == q.platform = platformName
    IN  SelectSeq(quotes, OfPlatform)

\* C1: two calls on one cache key issued within 30 s of each other, in any
\* interleaving: the later call returns the earlier call's list with every
\* source set to cached.
C1_SecondCallIsCachedCopy ==
    \A c1, c2 \in CallIds :
        ( /\ c1 < c2
          /\ calls[c1].pc = "done" /\ calls[c2].pc = "done"
          /\ SameKey(c1, c2)
          /\ calls[c2].startedAt - calls[c1].startedAt < CACHE_TTL )
        => calls[c2].returned = MarkCached(calls[c1].returned)

\* C2: a call that missed the cache returns at least one quote of every
\* registered platform.
C2_EveryPlatformInFreshResult ==
    \A c \in CallIds :
        (calls[c].pc = "done" /\ ~calls[c].hit)
        => \A a \in AdapterIds : Len(QuotesOf(adapters[a], calls[c].returned)) >= 1

\* C3: no producer call ever rejects, whichever step of it fails.
C3_ProducerNeverRejects ==
    \A c \in CallIds, a \in AdapterIds : calls[c].produced[a].status # "rejected"

\* C4: a call that missed the cache never rejects, and it returns, unchanged,
\* the whole list of every producer that resolved, whatever the other
\* producers did.
C4_FailureIsolation ==
    \A c \in CallIds :
        /\ calls[c].pc # "rejected"
        /\ (calls[c].pc = "done" /\ ~calls[c].hit)
           => \A a \in AdapterIds :
                calls[c].produced[a].status = "resolved"
                => QuotesOf(adapters[a], calls[c].returned) = calls[c].produced[a].quotes

\* a fresh call returned with one producer rejected and another's quotes kept
C4_Witness ==
    \E c \in CallIds, a, b \in AdapterIds :
        /\ calls[c].pc = "done" /\ ~calls[c].hit
        /\ calls[c].produced[a].status = "rejected"
        /\ calls[c].produced[b].status = "resolved"
        /\ Len(calls[c].produced[b].quotes) > 0
        /\ QuotesOf(adapters[b], calls[c].returned) = calls[c].produced[b].quotes

(***************************************************************************)
(* Properties of the planner                                               *)
(***************************************************************************)
Returned == routesOut.status = "returned"

Weekday(clk) == clk.day \in 1..5

\* A service with calendar rows runs on the clock's date iff the date lies in
\* [start_date, end_date] and the weekday's flag is set
ActiveOn(calendarRows, serviceId, clk) ==
    \A k \in DOMAIN calendarRows :
        calendarRows[k].service_id = serviceId
        => /\ calendarRows[k].start_date <= clk.date
           /\ clk.date <= calendarRows[k].end_date
           /\ calendarRows[k].flags[days[clk.day + 1]] = "1"

BoardSec(leg) == parseTimeSeconds(leg.start.departure_time)
AlightSec(leg) == parseTimeSeconds(leg.end.arrival_time)

\* C5: every trip of a returned itinerary belongs to a service that the
\* feed's calendar makes active on the day of the request; with the
\* weekend-only calendar of scenario S3 and a weekday request, nothing is
\* returned.
C5_OnlyActiveTripsSelected ==
    Returned =>
        /\ \A i \in DOMAIN routesOut.routes : \A l \in DOMAIN routesOut.routes[i].legs :
              ActiveOn(feed.calendar, routesOut.routes[i].legs[l].trip.service_id, query.at)
        /\ (feed = FeedS3 /\ Weekday(query.at)) => routesOut.routes = <<>>

\* C6: the first bus of every returned itinerary leaves its boarding stop at
\* or after the time of the request.
C6_BoardsAtOrAfterNow ==
    Returned =>
        \A i \in DOMAIN routesOut.routes :
            BoardSec(routesOut.routes[i].legs[1]) >= query.at.sec

\* C7: scenario S1 (weekday, 09:55) returns exactly one itinerary, the direct
\* ride on R1 from S1 to S3 with fare 5 and at most 25 minutes; and the direct
\* search never yields two itineraries on one route.
C7_S1ExactlyOneDirect ==
    Returned =>
        /\ ( /\ feed = FeedS1 /\ query.pickup = NearS1 /\ query.drop = NearS3
             /\ Weekday(query.at) /\ query.at.sec = StartSec )
           => /\ Len(routesOut.routes) = 1
              /\ Len(routesOut.routes[1].legs) = 1
              /\ routesOut.routes[1].legs[1].route_id = "R1"
              /\ routesOut.routes[1].legs[1].start.stop_id = "S1"
              /\ routesOut.routes[1].legs[1].end.stop_id = "S3"
              /\ routesOut.routes[1].fare = 5
              /\ routesOut.routes[1].duration <= 25
        /\ \A i, j \in DOMAIN routesOut.directRoutes :
              routesOut.directRoutes[i].legs[1].route_id
                  = routesOut.directRoutes[j].legs[1].route_id => i = j

\* Scenario S4 asked: stops a few hundred metres apart, T2 leaving S3 five
\* minutes after T1 reaches it, from next to S1 to next to S4
S4Asked ==
    /\ Returned
    /\ feed = FeedS4(1, 5)
    /\ query.pickup = NearS1 /\ query.drop = NearS4(1)

\* the itinerary R1 -> (transfer at S3) -> R2 with a wait of waitMin minutes
IsR1S3R2(r, waitMin) ==
    /\ Len(r.legs) = 2
    /\ r.legs[1].route_id = "R1" /\ r.legs[1].start.stop_id = "S1"
    /\ r.legs[1].end.stop_id = "S3"
    /\ r.legs[2].route_id = "R2" /\ r.legs[2].start.stop_id = "S3"
    /\ r.legs[2].end.stop_id = "S4"
    /\ r.segments[3].instruction = "Transfer" /\ r.segments[3].duration = waitMin

FindsR1S3R2 ==
    \E k \in DOMAIN routesOut.transferRoutes : IsR1S3R2(routesOut.transferRoutes[k], 5)

AllFound == routesOut.directRoutes \o routesOut.transferRoutes

\* C9: at most 5 itineraries come back, in non-decreasing order of total
\* duration, and two of equal duration come back in the order the searches
\* found them (direct finds first, then transfer finds).
C9_AtMostFiveSortedStable ==
    Returned =>
        /\ Len(routesOut.routes) <= 5
        /\ \A i, j \in DOMAIN routesOut.routes :
              i < j =>
                /\ routesOut.routes[i].duration <= routesOut.routes[j].duration
                /\ routesOut.routes[i].duration = routesOut.routes[j].duration
                   => IndexOf(AllFound, routesOut.routes[i])
                        < IndexOf(AllFound, routesOut.routes[j])

\* more than five finds cut to five, two of the returned ones tied
C9_Witness ==
    /\ Returned
    /\ Len(AllFound) > 5
    /\ Len(routesOut.routes) = 5
    /\ \E i, j \in DOMAIN routesOut.routes :
          i < j /\ routesOut.routes[i].duration = routesOut.routes[j].duration

TransferItineraries ==
    {r \in Range(routesOut.routes) \cup Range(routesOut.transferRoutes) : Len(r.legs) = 2}

DirectShape(r) ==
    /\ Len(r.segments) = 3
    /\ r.segments[1].type = "walk" /\ r.segments[2].type = "bus"
    /\ r.segments[3].type = "walk"

\* the wait is reported as a zero-distance walk segment that stays at the
\* transfer stop
TransferShape(r) ==
    /\ Len(r.segments) = 5
    /\ r.segments[1].type = "walk" /\ r.segments[2].type = "bus"
    /\ r.segments[3].type = "walk" /\ r.segments[3].instruction = "Transfer"
    /\ r.segments[3].distance = 0 /\ r.segments[3].start = r.segments[3].end
    /\ r.segments[4].type = "bus" /\ r.segments[5].type = "walk"

SamePlace(stopInfo, place) ==
    stopInfo.lat = place.lat /\ stopInfo.lng = place.lng /\ stopInfo.name = place.name

ConnectedEndToEnd(r) ==
    /\ r.segments[1].start.lat = query.pickup.lat
    /\ r.segments[1].start.lng = query.pickup.lng
    /\ r.segments[Len(r.segments)].end.lat = query.drop.lat
    /\ r.segments[Len(r.segments)].end.lng = query.drop.lng
    /\ \A k \in 1..(Len(r.segments) - 1) : r.segments[k].end = r.segments[k + 1].start
    /\ \A k \in DOMAIN r.segments :
          r.segments[k].type = "bus"
          => /\ Len(r.segments[k].stops) >= 2
             /\ SamePlace(r.segments[k].stops[1], r.segments[k].start)
             /\ SamePlace(r.segments[k].stops[Len(r.segments[k].stops)], r.segments[k].end)

\* C11: every returned itinerary is Walk, Bus, Walk (one leg) or Walk, Bus,
\* wait at the transfer stop, Bus, Walk (two legs); it starts at the pickup
\* and ends at the drop coordinate; each segment ends where the next starts;
\* each bus segment's stop list runs from its board stop to its alight stop.
C11_ShapeAndConnection ==
    Returned =>
        \A i \in DOMAIN routesOut.routes :
            /\ IF Len(routesOut.routes[i].legs) = 1 THEN DirectShape(routesOut.routes[i])
                                                    ELSE TransferShape(routesOut.routes[i])
            /\ ConnectedEndToEnd(routesOut.routes[i])

\* one answer holding both a direct and a transfer itinerary
C11_Witness ==
    /\ Returned
    /\ \E i, j \in DOMAIN routesOut.routes :
          /\ Len(routesOut.routes[i].legs) = 1 /\ DirectShape(routesOut.routes[i])
          /\ Len(routesOut.routes[j].legs) = 2 /\ TransferShape(routesOut.routes[j])
          /\ ConnectedEndToEnd(routesOut.routes[j])

RECURSIVE SumOver(_, _)
SumOver(q, field) == IF q = <<>> THEN 0 ELSE Head(q)[field] + SumOver(Tail(q), field)

RECURSIVE SlabSum(_)
\* the fare slab applied to each bus segment's own distance, added up
SlabSum(segments) ==
    IF segments = <<>> THEN 0
    ELSE (IF Head(segments).type = "bus" THEN calculateBusFare(Head(segments).distance) ELSE 0)
         + SlabSum(Tail(segments))

\* C12: the total duration of every returned itinerary is the sum of its
\* segments' durations, and its fare is the sum over its bus segments of the
\* slab fare of that segment's distance.
C12_TotalsAreSums ==
    Returned =>
        \A i \in DOMAIN routesOut.routes :
            /\ routesOut.routes[i].duration = SumOver(routesOut.routes[i].segments, "duration")
            /\ routesOut.routes[i].fare = SlabSum(routesOut.routes[i].segments)

\* a returned two-leg itinerary whose legs fall in slabs that one slab over
\* the whole distance would not add up to
C12_Witness ==
    /\ Returned
    /\ \E i \in DOMAIN routesOut.routes :
          /\ Len(routesOut.routes[i].legs) = 2
          /\ routesOut.routes[i].segments[3].duration > 0
          /\ routesOut.routes[i].fare = SlabSum(routesOut.routes[i].segments)
          /\ routesOut.routes[i].fare
               # calculateBusFare(routesOut.routes[i].segments[2].distance
                                  + routesOut.routes[i].segments[4].distance)

FeedRouteIds == {feed.trips[k].route_id : k \in DOMAIN feed.trips}
FeedStopIds == {feed.stops[k].stop_id : k \in DOMAIN feed.stops}
\* afterTimeSec omitted, or given at 10:05:00 or 10:12:00
AfterTimes == {NoAfterTime, AfterTime(10 * 3600 + 5 * 60), AfterTime(10 * 3600 + 12 * 60)}

WellFormedLeg(t) ==
    /\ t.end.trip_id = t.start.trip_id
    /\ t.trip.trip_id = t.start.trip_id
    /\ t.end.stop_sequence > t.start.stop_sequence
    /\ parseTimeSeconds(t.end.arrival_time) >= parseTimeSeconds(t.start.departure_time)

\* C13: whatever findTripForLeg returns, the alight stop-time is of the same
\* trip as the board stop-time, later in sequence, and its arrival is not
\* before the board departure.
C13_AlightAfterBoard ==
    \A r \in FeedRouteIds, s \in FeedStopIds, e \in FeedStopIds, a \in AfterTimes :
        findTripForLeg(bus, clock, r, s, e, a).found
        => WellFormedLeg(findTripForLeg(bus, clock, r, s, e, a))

\* a leg found on a trip whose rows were read in reverse order, and a
\* backwards request that finds nothing
C13_Witness ==
    /\ feed = FeedTwoTrips
    /\ findTripForLeg(bus, clock, "R1", "S1", "S3", NoAfterTime).found
    /\ findTripForLeg(bus, clock, "R1", "S1", "S3", NoAfterTime).trip.trip_id = "T3"
    /\ WellFormedLeg(findTripForLeg(bus, clock, "R1", "S1", "S3", NoAfterTime))
    /\ ~findTripForLeg(bus, clock, "R1", "S3", "S1", NoAfterTime).found


MandatoryFiles == {"stops", "stop_times", "trips", "routes"}

\* C15: when stops, stop_times, trips or routes was absent at load, every
\* findRoutes call returns the empty list without throwing, at any time and
\* for any pickup and drop, and /api/bus-routes answers success with count 0.
C15_MissingFileDisablesPlanner ==
    (~(MandatoryFiles \subseteq feed.files) /\ routesOut.status # "none")
    => /\ ~bus.isLoaded
       /\ routesOut.status = "returned" /\ routesOut.routes = <<>>
       /\ busRoutesReply(routesOut)
            = [status |-> 200, success |-> TRUE, count |-> 0, routes |-> <<>>]

\* routes.csv alone is absent, the query is one the complete feed answers
\* with a transfer, and the planner has answered with nothing
C15_Witness ==
    /\ feed = FeedNoRoutes
    /\ Returned /\ routesOut.routes = <<>>
    /\ query.pickup = NearS1 /\ query.drop = NearS4(10)
    /\ findRoutes(loadData(FeedS4(10, 5)), clock, NearS1, NearS4(10)).routes # <<>>


\* a number, or a string that reads as one
Numeric(v) == v.kind = "number" \/ (v.kind = "string" /\ ~StringToNumber(v.text).nan)

AbsentOrNonNumeric(body) ==
    IF ~body.pickup.present \/ ~body.drop.present THEN TRUE
    ELSE \E v \in {body.pickup.lat, body.pickup.lng, body.drop.lat, body.drop.lng} :
            ~Numeric(v)

\* C14: a request to either endpoint in which pickup.lat, pickup.lng,
\* drop.lat or drop.lng is absent or non-numeric is answered 400 and is never
\* passed on to the aggregator or the planner.
C14_BadCoordinatesGet400 ==
    (http.phase # "idle" /\ AbsentOrNonNumeric(http.body))
    => (~http.forwarded /\ http.status = 400)


Starts(c) == calls[c].pc = "idle" /\ calls'[c].pc # "idle"

ServedFromCache(call, entry) ==
    /\ call.pc = "done"
    /\ \A a \in AdapterIds : call.produced[a] = Pending /\ call.promises[a] = Pending
    /\ Len(call.returned) = Len(entry.data)
    /\ \A i \in DOMAIN entry.data :
          call.returned[i] = [entry.data[i] EXCEPT !.source = "cached"]

\* C16: a call is answered from the cache iff the key has an entry of age
\* < 30 s at the lookup (an entry aged 30 s or more is not served); on a hit
\* the cache stays as it is, no producer is started for the call then or
\* later, and the quotes returned are the stored ones with source cached.
C16_HitIffFreshEntry ==
    [][\A c \in CallIds :
          /\ Starts(c) =>
                /\ calls'[c].hit
                     <=> /\ cache[getCacheKey(calls'[c].pickup, calls'[c].drop)].present
                         /\ now - cache[getCacheKey(calls'[c].pickup, calls'[c].drop)].timestamp
                              < CACHE_TTL
                /\ calls'[c].hit =>
                     /\ cache' = cache
                     /\ ServedFromCache(calls'[c],
                                        cache[getCacheKey(calls'[c].pickup, calls'[c].drop)])
          /\ calls[c].hit => calls'[c] = calls[c]]_vars

\* a call found an entry stored 15 s earlier and returned its quotes
C16_Witness ==
    \E c \in CallIds :
        /\ calls[c].hit /\ calls[c].returned # <<>>
        /\ calls[c].startedAt = TickMs
        /\ cache[getCacheKey(calls[c].pickup, calls[c].drop)].timestamp = 0
        /\ ServedFromCache(calls[c], cache[getCacheKey(calls[c].pickup, calls[c].drop)])

\* what producer a handed back to the aggregator: its list, or nothing when
\* it failed
Sublist(call, a) ==
    IF call.produced[a].status = "resolved" THEN call.produced[a].quotes ELSE <<>>

\* C17: the list returned by a call that missed the cache is ola's list, then
\* rapido's, then uber's, each in the order its producer returned it, in
\* whatever order the three producers completed.
C17_RegistrationOrder ==
    \A c \in CallIds :
        (calls[c].pc = "done" /\ ~calls[c].hit)
        => calls[c].returned
             = Sublist(calls[c], 1) \o Sublist(calls[c], 2) \o Sublist(calls[c], 3)

\* a finished miss in which all three producers returned quotes
C17_Witness ==
    \E c \in CallIds :
        /\ calls[c].pc = "done" /\ ~calls[c].hit
        /\ \A a \in AdapterIds : Sublist(calls[c], a) # <<>>
        /\ Head(calls[c].returned).platform = "ola"
        /\ calls[c].returned[Len(calls[c].returned)].platform = "uber"
        /\ Len(Sublist(calls[c], 2)) > 1

\* C18: an entry of the cache is replaced only when it is stale (age >=
\* 30 s): a fresh entry is never overwritten and a stored list never changes,
\* however concurrent calls on one key interleave.
C18_FreshEntryNeverReplaced ==
    [][\A k \in CacheKeys :
          (cache[k].present /\ cache'[k] # cache[k])
          => now - cache[k].timestamp >= CACHE_TTL]_vars


\* the class an adapter computes each fallback quote from
ClassOfQuote(q) ==
    CASE q.vehicleType \in {"mini", "UberGo"} -> "mini"
      [] q.vehicleType \in {"prime_sedan", "UberPremier"} -> "sedan"
      [] q.vehicleType \in {"auto", "UberAuto"} -> "auto"
      [] q.vehicleType = "bike" -> "bike"

\* C19: for every class, every distance >= 0 and every surge in [1.0, 1.2)
\* calculateFare returns at least the class's minimum fare, and so does the
\* price of every fallback quote of every producer.
C19_FareAtLeastMinimum ==
    /\ calc.done => calc.fare >= rates[calc.type].min
    /\ \A i \in DOMAIN calc.quotes :
          /\ calc.quotes[i].source = "estimate"
          /\ calc.quotes[i].price >= rates[ClassOfQuote(calc.quotes[i])].min

\* a ride of no length at no surge costs exactly the minimum, and a long one
\* at the highest surge costs more
C19_Witness ==
    /\ calc.done /\ calc.quotes # <<>>
    /\ \/ calc.pickup = calc.drop /\ calc.surge = 1000 /\ calc.fare = rates[calc.type].min
       \/ calc.surge = 1199 /\ calc.fare > 10 * rates[calc.type].min


\* the service of the trip a stop_times row belongs to runs on route r, and
\* the feed's calendar makes it active on the clock's day
OnRouteActiveToday(row, r) ==
    \E t \in DOMAIN feed.trips :
        /\ feed.trips[t].trip_id = row.trip_id
        /\ feed.trips[t].route_id = r
        /\ ActiveOn(feed.calendar, feed.trips[t].service_id, clock)

CallsAlightLater(row, e) ==
    \E j \in DOMAIN feed.stop_times :
        /\ feed.stop_times[j].trip_id = row.trip_id
        /\ feed.stop_times[j].stop_id = e
        /\ feed.stop_times[j].stop_sequence > row.stop_sequence

\* the rows of stop_times.csv at which the leg r: s -> e can be boarded
FeasibleBoardings(r, s, e, a) ==
    {k \in DOMAIN feed.stop_times :
        /\ feed.stop_times[k].stop_id = s
        /\ OnRouteActiveToday(feed.stop_times[k], r)
        /\ a.given => parseTimeSeconds(feed.stop_times[k].departure_time) >= a.sec
        /\ CallsAlightLater(feed.stop_times[k], e)}

EarliestOf(res, feasible) ==
    \E k \in feasible :
        /\ feed.stop_times[k].trip_id = res.start.trip_id
        /\ feed.stop_times[k].stop_sequence = res.start.stop_sequence
        /\ \A j \in feasible :
              parseTimeSeconds(feed.stop_times[k].departure_time)
                <= parseTimeSeconds(feed.stop_times[j].departure_time)

\* C20: findTripForLeg returns a boarding of minimum departure time among the
\* stop-times at the boarding stop whose trip is on the route, is active
\* today, departs at or after the earliest time asked for and calls the
\* alight stop later in sequence; it returns none only when there is none.
C20_EarliestFeasibleBoarding ==
    bus.isLoaded =>
        \A r \in FeedRouteIds, s \in FeedStopIds, e \in FeedStopIds, a \in AfterTimes :
            IF findTripForLeg(bus, clock, r, s, e, a).found
            THEN EarliestOf(findTripForLeg(bus, clock, r, s, e, a), FeasibleBoardings(r, s, e, a))
            ELSE FeasibleBoardings(r, s, e, a) = {}


\* C21: the distance of every bus segment of every returned itinerary,
\* direct or transfer, is the sum of the great-circle hops between the
\* consecutive stops of the segment's stop list.
C21_BusDistanceIsSumOfHops ==
    Returned =>
        \A i \in DOMAIN routesOut.routes : \A k \in DOMAIN routesOut.routes[i].segments :
            routesOut.routes[i].segments[k].type = "bus"
            => routesOut.routes[i].segments[k].distance
                 = calculateRouteDistance(routesOut.routes[i].segments[k].stops)


AscendingSequence(sts) ==
    \A i \in 1..(Len(sts) - 1) : sts[i].stop_sequence < sts[i + 1].stop_sequence

\* the first trip of route r in trips.csv
FirstTripOf(r) ==
    feed.trips[CHOOSE t \in DOMAIN feed.trips :
                  /\ feed.trips[t].route_id = r
                  /\ \A u \in DOMAIN feed.trips : feed.trips[u].route_id = r => t <= u].trip_id

StopsByRouteFromFirstTrip ==
    \A r \in FeedRouteIds :
        MapHas(bus.stopTimesByTripId, FirstTripOf(r))
        => /\ MapHas(bus.stopsByRoute, r)
           /\ MapGet(bus.stopsByRoute, r)
                = [i \in DOMAIN MapGet(bus.stopTimesByTripId, FirstTripOf(r)) |->
                      MapGet(bus.stopTimesByTripId, FirstTripOf(r))[i].stop_id]

\* C22: after the index build, stopTimesByTrip of every trip of the feed is
\* in ascending stop sequence, whatever the order of the rows and whether or
\* not the trip is the one its route is sampled from, and stopsByRoute of each
\* route is the ordered stop ids of the route's first trip.
C22_StopTimesByTripSorted ==
    bus.isLoaded =>
        /\ \A k \in DOMAIN bus.stopTimesByTripId : AscendingSequence(bus.stopTimesByTripId[k].val)
        /\ StopsByRouteFromFirstTrip


NumericSequences(m) ==
    \A k \in DOMAIN m : \A i \in DOMAIN m[k].val : ~m[k].val[i].stop_sequence.nan

\* C23: after load no stop whose latitude or longitude is not a number is in
\* the stop table, and no stop-time whose stop sequence is not a number is in
\* stopTimesByStop or stopTimesByTrip: such rows are skipped.
C23_UnparsableRowsSkipped ==
    load.phase = "loaded" =>
        /\ \A k \in DOMAIN load.stops :
              ~load.stops[k].val.stop_lat.nan /\ ~load.stops[k].val.stop_lon.nan
        /\ NumericSequences(load.stopTimesByStopId)
        /\ NumericSequences(load.stopTimesByTripId)


\* C24: on a feed that loaded, findRoutes never throws for valid pickup and
\* drop coordinates, also when a trip names a route id that routes.csv does
\* not list or a stop_time names an unknown stop: every request ends with a
\* (possibly empty) list returned.
C24_NeverThrows ==
    (bus.isLoaded /\ routesOut.status # "none") => Returned

\* C29: the two legs of every returned transfer itinerary ride two different
\* routes (and so never one and the same trip split at an intermediate stop).
C29_TransferRidesTwoRoutes ==
    Returned => \A i \in DOMAIN routesOut.routes :
        Len(routesOut.routes[i].legs) = 2
        => routesOut.routes[i].legs[1].route_id # routesOut.routes[i].legs[2].route_id

JsonNumbers(body) ==
    IF ~body.pickup.present \/ ~body.drop.present THEN FALSE
    ELSE \A v \in {body.pickup.lat, body.pickup.lng, body.drop.lat, body.drop.lng} :
            v.kind = "number"

\* C30: a request to either endpoint whose four coordinates are all present,
\* numeric, finite and in range, a coordinate equal to 0 included, is never
\* answered 400: it is passed on to the aggregator or the planner.
C30_ValidCoordinatesAccepted ==
    (http.phase # "idle" /\ JsonNumbers(http.body))
    => (http.forwarded /\ http.status # 400)


\* C26: every entry stored in the cache is a non-empty list in which each
\* quote is live or an estimate: an empty fan-out result is never stored and
\* a response served from the cache is never written back.
C26_StoredEntriesNonEmptyUncached ==
    \A k \in CacheKeys :
        cache[k].present
        => /\ Len(cache[k].data) > 0
           /\ \A i \in DOMAIN cache[k].data : cache[k].data[i].source \in {"live", "estimate"}

\* One call came back empty from its fan-out and left no entry under its
\* key; another call's non-empty result is stored under a second key
C26_Witness ==
    /\ \E c \in CallIds :
          /\ calls[c].pc = "done" /\ ~calls[c].hit /\ calls[c].returned = <<>>
          /\ ~cache[getCacheKey(calls[c].pickup, calls[c].drop)].present
    /\ \E c \in CallIds :
          /\ calls[c].pc = "done" /\ ~calls[c].hit /\ Len(calls[c].returned) > 0
          /\ cache[getCacheKey(calls[c].pickup, calls[c].drop)].data = calls[c].returned


NoneRunning(call) == \A a \in AdapterIds : call.promises[a].status # "pending"

\* C25: a call that missed the cache returns exactly when the last producer
\* of its fan-out has settled: it has not returned while a producer of its is
\* running, it is not left waiting once none is, and when every producer
\* settles in the end the call returns in the end.
C25_ReturnsWhenLastSettles ==
    /\ [](\A c \in CallIds :
            /\ (calls[c].pc \in {"done", "rejected"} /\ ~calls[c].hit) => NoneRunning(calls[c])
            /\ calls[c].pc = "awaiting" => ~NoneRunning(calls[c]))
    /\ \A c \in CallIds : (calls[c].pc = "awaiting") ~> (calls[c].pc = "done")

\* A call that missed has returned the quotes of two producers, the third
\* having rejected
C25_Witness ==
    \E c \in CallIds :
        /\ calls[c].pc = "done" /\ ~calls[c].hit /\ NoneRunning(calls[c])
        /\ \E a \in AdapterIds : calls[c].produced[a].status = "rejected"
        /\ Len(calls[c].returned) > 0


\* C27: the browser is a singleton: however the server's init() and the
\* producers' getNewPage() calls interleave, chromium.launch is invoked at
\* most once, and every launched browser that is still open is the one
\* this.browser refers to (so that close() can close it).
C27_BrowserSingleton ==
    /\ chrome.launched <= 1
    /\ \A b \in chrome.live : chrome.browser = b

\* C28: every context and page opened for a producer call is closed by the
\* time the call settles, on every path.
C28_ClosedWhenSettled ==
    \A p \in Producers :
        chrome.callers[p].pc = "settled"
        => (chrome.callers[p].context # "open" /\ chrome.callers[p].page # "open")

====
